---- MODULE Spec2Model ----
(***************************************************************************)
(* Model of the mote snapshot engine: the content-addressed object store,  *)
(* the snapshot store, the mtime+size index, the ignore-aware scanner and  *)
(* the garbage collector.                                                  *)
(*                                                                         *)
(* Scaling.  File contents are the first NumContents byte strings over    *)
(* Byte, shortest first.  A hex string is a sequence over HexDigit =       *)
(* {"0","1"}; a content hash has PrefixLen + RestLen digits, the first     *)
(* PrefixLen of which name the fan-out directory.  The clock counts ticks; *)
(* TicksPerSec ticks make one second (the granularity of a manifest's file *)
(* name) and SecsPerDay seconds one day (the granularity of the retention  *)
(* age).                                                                   *)
(***************************************************************************)
EXTENDS Integers, Sequences, FiniteSets, TLC

VARIABLES
    tree,       \* working tree: relative path -> [content, mtime]
    ignore,     \* patterns of the ignore file
    objects,    \* objects/: <<prefix, rest>> -> file data
    snapshots,  \* snapshots/: file name -> file data
    index,      \* <repo>/index: [present, valid, entries]
    now,        \* wall clock, in ticks
    result,     \* outcome of the last operation
    repo,       \* the storage root whose objects/, snapshots/ and index the
                \* variables above hold
    shelved,    \* the other storage roots that exist: root -> their contents
    procs,      \* the snapshot-create processes that run step by step
    config_dir, \* the config.toml of each layer: a set of at most one file
    beside      \* the files of the file system outside the working-tree root

vars == <<tree, ignore, objects, snapshots, index, now, result, repo, shelved, procs, config_dir, beside>>

----------------------------------------------------------------------------
(* Bounds *)

NumContents == 3
RestLen == 2
MaxTime == 2
MaxSnaps == 2
TicksPerSec == 1
SecsPerDay == 1

----------------------------------------------------------------------------
(* Generic helpers *)

Byte == 0..1
HexDigit == {"0", "1"}

RECURSIVE Pow(_, _)
Pow(b, e) == IF e = 0 THEN 1 ELSE b * Pow(b, e - 1)

RECURSIVE BitsFor(_)
BitsFor(n) == IF n <= 1 THEN 0 ELSE 1 + BitsFor((n + 1) \div 2)

Take(s, n) == SubSeq(s, 1, IF n < Len(s) THEN n ELSE Len(s))
Drop(s, n) == SubSeq(s, (IF n < Len(s) THEN n ELSE Len(s)) + 1, Len(s))

starts_with(s, p) == Len(p) <= Len(s) /\ SubSeq(s, 1, Len(p)) = p

contains(s, p) ==
    \E i \in 0..(Len(s) - Len(p)) : SubSeq(s, i + 1, i + Len(p)) = p

HexOf(b) == IF b = 0 THEN "0" ELSE "1"
ValOf(d) == IF d = "0" THEN 0 ELSE 1

\* hex::encode of the number n on w digits, most significant digit first
RECURSIVE ToHex(_, _)
ToHex(n, w) == IF w = 0 THEN <<>> ELSE Append(ToHex(n \div 2, w - 1), HexOf(n % 2))

RECURSIVE FromHex(_)
FromHex(s) ==
    IF s = <<>> THEN 0 ELSE 2 * FromHex(SubSeq(s, 1, Len(s) - 1)) + ValOf(s[Len(s)])

Ok(v) == [ok |-> TRUE, err |-> "", val |-> v]
Err(e) == [ok |-> FALSE, err |-> e, val |-> <<>>]

----------------------------------------------------------------------------
(* Object store: src/src/storage/objects.rs *)

PrefixLen == 2
HashLen == PrefixLen + RestLen

Hashes == [1..HashLen -> HexDigit]

\* Number of the byte string B among all byte strings, shortest first.
RECURSIVE ContentCode(_)
ContentCode(B) ==
    IF B = <<>> THEN 0
    ELSE 2 * ContentCode(SubSeq(B, 1, Len(B) - 1)) + B[Len(B)] + 1

\* The byte string whose number is n.
RECURSIVE ContentOf(_)
ContentOf(n) ==
    IF n = 0 THEN <<>> ELSE Append(ContentOf((n - 1) \div 2), (n - 1) % 2)

Content == {ContentOf(n) : n \in 0..(NumContents - 1)}

\* SHA-256 is modelled as a collision-free digest of fixed width: the
\* content's number, spread over the digest space by an odd multiplier.
compute_hash(B) == ToHex((5 * (ContentCode(B) + 1)) % Pow(2, HashLen), HashLen)

\* hash.split_at(2), joined under objects/
object_path_nosplit(hash) == <<Take(hash, 1), Drop(hash, 1)>>
object_path(hash) == <<Take(hash, PrefixLen), Drop(hash, PrefixLen)>>

\* A zstd frame: a complete frame decodes to its body; a frame that was
\* cut short (a proper, non-empty prefix of a frame) does not decode.
encode_all_unfinished(B) == [body |-> B, complete |-> FALSE]
encode_all(B) == [body |-> B, complete |-> TRUE]
Truncated == [body |-> <<>>, complete |-> FALSE]
decode_all(data) == IF data.complete THEN Ok(data.body) ELSE Err("Io")

\* ObjectStore::store: returns <<objects', hash>>
store_rewrite(objs, B) ==
    LET hash == compute_hash(B)
        path == object_path(hash)
    IN  <<[q \in DOMAIN objs \cup {path} |->
              IF q = path THEN encode_all(B) ELSE objs[q]], hash>>
store(objs, B) ==
    LET hash == compute_hash(B)
        path == object_path(hash)
    IN  IF path \in DOMAIN objs THEN <<objs, hash>>
        ELSE <<[q \in DOMAIN objs \cup {path} |->
                  IF q = path THEN encode_all(B) ELSE objs[q]], hash>>

\* ObjectStore::retrieve
retrieve_unchecked(objs, hash) ==
    LET path == object_path(hash)
    IN  IF path \notin DOMAIN objs THEN Err("ObjectNotFound")
        ELSE decode_all(objs[path])
retrieve(objs, hash) ==
    LET path == object_path(hash)
    IN  IF path \notin DOMAIN objs THEN Err("ObjectNotFound")
        ELSE LET content == decode_all(objs[path])
             IN  IF ~content.ok THEN content
                 ELSE IF compute_hash(content.val) # hash THEN Err("HashMismatch")
                 ELSE Ok(content.val)

\* ObjectStore::store_file: returns <<objects', <<hash, size>>>>
store_file(objs, file) ==
    LET r == store(objs, file.content)
    IN  <<r[1], <<r[2], Len(file.content)>>>>

\* ObjectStore::restore_file: returns [tree, out]; the file it creates is
\* stamped with the time of the write
restore_file_keep(objs, tr, hash, dest, clock) ==
    LET content == retrieve(objs, hash)
    IN  IF ~content.ok THEN [tree |-> tr, out |-> content]
        ELSE [tree |-> [q \in DOMAIN tr \cup {dest} |->
                          IF q \in DOMAIN tr THEN tr[q]
                          ELSE [content |-> content.val, mtime |-> clock, readable |-> TRUE]],
              out |-> Ok(<<>>)]
restore_file(objs, tr, hash, dest, clock) ==
    LET content == retrieve(objs, hash)
    IN  IF ~content.ok THEN [tree |-> tr, out |-> content]
        ELSE IF dest \in DOMAIN tr /\ ~tr[dest].readable
        THEN [tree |-> tr, out |-> Err("Io")]
        ELSE [tree |-> [q \in DOMAIN tr \cup {dest} |->
                          IF q = dest THEN [content |-> content.val, mtime |-> clock, readable |-> TRUE]
                          ELSE tr[q]],
              out |-> Ok(<<>>)]

----------------------------------------------------------------------------
(* Working tree and ignore rules: src/src/ignore.rs *)

FilePaths == {<<"a">>, <<"d", "b">>, <<".git", "c">>}

\* WalkDir yields the entries of a given tree in one fixed order.
WalkOrder == << <<".git", "c">>, <<"a">>, <<"d", "b">> >>

\* a regular file: its bytes, its mtime, and whether its permission bits let
\* the process open it (chmod 000 takes that away, for reading and writing)
FileRec(c, t) == [content |-> c, mtime |-> t, readable |-> TRUE]

\* gitignore patterns without a slash match the last component of a path
\* at any depth; a pattern with a trailing slash matches directories only.
Patterns == {[name |-> "a", dir_only |-> FALSE], [name |-> "d", dir_only |-> TRUE]}

\* IgnoreFilter::is_ignored
is_ignored(pats, path, is_dir) ==
    /\ path # <<>>
    /\ \E pat \in pats : pat.name = path[Len(path)] /\ (pat.dir_only => is_dir)

\* the predicate given to filter_entry in IgnoreFilter::walk_files
filter_entry_noprune(pats, path, is_dir) ==
    ~is_ignored(pats, path, is_dir)
filter_entry(pats, path, is_dir) ==
    IF starts_with(path, <<".mote">>) \/ starts_with(path, <<".git">>)
         \/ starts_with(path, <<".jj">>)
    THEN FALSE
    ELSE ~is_ignored(pats, path, is_dir)

\* IgnoreFilter::walk_files: the regular files no ancestor of which (nor
\* the file itself) is rejected by filter_entry, in walk order.
walk_files(tr, pats) ==
    LET visited(p) ==
            /\ p \in DOMAIN tr
            /\ \A k \in 0..Len(p) : filter_entry(pats, SubSeq(p, 1, k), k < Len(p))
    IN  SelectSeq(WalkOrder, visited)

----------------------------------------------------------------------------
(* Index: src/src/storage/index.rs *)

NoEntries == [p \in {} |-> 0]

\* no index file
NoIndex == [present |-> FALSE, valid |-> TRUE, entries |-> NoEntries]

\* an index file whose bytes bincode does not decode: a file that was cut
\* short, or one that was damaged
PartialIndex == [present |-> TRUE, valid |-> FALSE, entries |-> NoEntries]

\* Index::load
load_or_reset(idx) ==
    IF idx.present /\ idx.valid THEN Ok(idx.entries) ELSE Ok(NoEntries)
load(idx) ==
    IF ~idx.present THEN Ok(NoEntries)
    ELSE IF ~idx.valid THEN Err("Io")
    ELSE Ok(idx.entries)

\* Index::save
save_index(entries) == [present |-> TRUE, valid |-> TRUE, entries |-> entries]

\* Index::insert
insert_if_absent(entries, e) ==
    [p \in DOMAIN entries \cup {e.path} |-> IF p \in DOMAIN entries THEN entries[p] ELSE e]
insert(entries, e) ==
    [p \in DOMAIN entries \cup {e.path} |-> IF p = e.path THEN e ELSE entries[p]]

\* Index::is_unchanged: the cached entry, as a set of at most one element
is_unchanged_mtime_only(entries, path, mtime, size) ==
    IF path \in DOMAIN entries /\ entries[path].mtime = mtime
    THEN {entries[path]} ELSE {}
is_unchanged(entries, path, mtime, size) ==
    IF path \in DOMAIN entries
         /\ entries[path].mtime = mtime /\ entries[path].size = size
    THEN {entries[path]} ELSE {}

----------------------------------------------------------------------------
(* Scanner: src/src/commands/snapshot/collect.rs *)

FileEntry(p, h, s) == [path |-> p, hash |-> h, size |-> s]

\* the body of the loop of collect_files for one walked entry; store_file
\* fails on a file that cannot be opened, and the entry is left out
collect_one_replacing(tr, acc, path) ==
    LET mtime == tr[path].mtime
        size == Len(tr[path].content)
        hit == is_unchanged(acc.entries, path, mtime, size)
        old == IF path \in DOMAIN acc.entries
               THEN {object_path(acc.entries[path].hash)} ELSE {}
    IN  IF hit # {}
        THEN LET cached == CHOOSE e \in hit : TRUE
             IN  [acc EXCEPT !.files = Append(@, FileEntry(path, cached.hash, cached.size))]
        ELSE IF ~tr[path].readable THEN acc
        ELSE LET r == store_file(acc.objects, tr[path])
                 hash == r[2][1]
                 file_size == r[2][2]
             IN  [files |-> Append(acc.files, FileEntry(path, hash, file_size)),
                  objects |-> [q \in DOMAIN r[1] \ (old \ {object_path(hash)}) |-> r[1][q]],
                  entries |-> insert(acc.entries,
                      [path |-> path, hash |-> hash, size |-> file_size, mtime |-> mtime])]
collect_one(tr, acc, path) ==
    LET mtime == tr[path].mtime
        size == Len(tr[path].content)
        hit == is_unchanged(acc.entries, path, mtime, size)
    IN  IF hit # {}
        THEN LET cached == CHOOSE e \in hit : TRUE
             IN  [acc EXCEPT !.files = Append(@, FileEntry(path, cached.hash, cached.size))]
        ELSE IF ~tr[path].readable THEN acc
        ELSE LET r == store_file(acc.objects, tr[path])
                 hash == r[2][1]
                 file_size == r[2][2]
             IN  [files |-> Append(acc.files, FileEntry(path, hash, file_size)),
                  objects |-> r[1],
                  entries |-> insert(acc.entries,
                      [path |-> path, hash |-> hash, size |-> file_size, mtime |-> mtime])]

RECURSIVE collect_loop(_, _, _)
collect_loop(tr, acc, walk) ==
    IF walk = <<>> THEN acc
    ELSE collect_loop(tr, collect_one(tr, acc, Head(walk)), Tail(walk))

\* collect_files: returns [files, objects, entries]
collect_files(tr, pats, objs, entries) ==
    collect_loop(tr, [files |-> <<>>, objects |-> objs, entries |-> entries],
                 walk_files(tr, pats))

\* have_same_file_hashes
have_same_file_count(files1, files2) == Len(files1) = Len(files2)
have_same_file_hashes(files1, files2) ==
    /\ Len(files1) = Len(files2)
    /\ \A j \in 1..Len(files2) :
          /\ \E i \in 1..Len(files1) : files1[i].path = files2[j].path
          /\ LET last == CHOOSE i \in 1..Len(files1) :
                            /\ files1[i].path = files2[j].path
                            /\ \A k \in (i + 1)..Len(files1) : files1[k].path # files2[j].path
             IN  files1[last].hash = files2[j].hash

----------------------------------------------------------------------------
(* Snapshot store: src/src/storage/snapshots.rs *)

IdPrefixLen == 8

PathNo(p) == CHOOSE i \in 1..Len(WalkOrder) : WalkOrder[i] = p

\* The bytes fed to the hasher by generate_id, as a number: the timestamp,
\* then path and hash of every file in order.
ItemRadix == 1 + Len(WalkOrder) * Pow(2, HashLen)

RECURSIVE FilesCode(_)
FilesCode(files) ==
    IF files = <<>> THEN 0
    ELSE LET f == files[Len(files)]
         IN  FilesCode(SubSeq(files, 1, Len(files) - 1)) * ItemRadix
               + 1 + (PathNo(f.path) - 1) * Pow(2, HashLen) + FromHex(f.hash)

IdLen == BitsFor((MaxTime + 1) * Pow(ItemRadix, Len(WalkOrder)) + 1)

RECURSIVE Reverse(_)
Reverse(s) == IF s = <<>> THEN <<>> ELSE Append(Reverse(Tail(s)), Head(s))

\* Snapshot::generate_id: a collision-free digest of IdLen digits
generate_id(timestamp, files) ==
    LET code == timestamp + (MaxTime + 1) * FilesCode(files)
    IN  Reverse(ToHex((181 * (code + 1)) % Pow(2, IdLen), IdLen))

\* Snapshot::short_id
ShortIdLen == 7
short_id(snapshot) == Take(snapshot.id, ShortIdLen)

\* Snapshot::find_file: the first entry of that path, as a set of at most one
find_file(snapshot, path) ==
    LET hits == {i \in 1..Len(snapshot.files) : snapshot.files[i].path = path}
    IN  IF hits = {} THEN {}
        ELSE {snapshot.files[CHOOSE i \in hits : \A j \in hits : i <= j]}

\* Snapshot::new
NewSnapshot(files, message, trigger, clock) ==
    [id |-> generate_id(clock, files), timestamp |-> clock,
     message |-> message, files |-> files, trigger |-> trigger]

\* timestamp.format("%Y%m%d_%H%M%S"): whole seconds, fixed width
FormatTs(timestamp) ==
    ToHex(timestamp \div TicksPerSec, BitsFor(MaxTime \div TicksPerSec + 1))

FileName(snapshot) ==
    FormatTs(snapshot.timestamp) \o <<"_">> \o Take(snapshot.id, IdPrefixLen) \o <<".json">>

\* SnapshotStore::save
save(dir, snapshot) ==
    LET path == FileName(snapshot)
    IN  [f \in DOMAIN dir \cup {path} |->
            IF f = path THEN [json |-> TRUE, snap |-> snapshot] ELSE dir[f]]

\* SnapshotStore::load_snapshot
load_snapshot(data) == IF data.json THEN Ok(data.snap) ELSE Err("Json")

\* fs::read_dir promises no order: every enumeration of the directory
RECURSIVE Orders(_)
Orders(names) ==
    IF names = {} THEN {<<>>}
    ELSE UNION {{<<f>> \o o : o \in Orders(names \ {f})} : f \in names}

ReadDirOrders(dir) == Orders(DOMAIN dir)

\* the stable sort_by(|a, b| b.timestamp.cmp(&a.timestamp))
RECURSIVE InsertDesc(_, _)
InsertDesc(sorted, x) ==
    IF sorted = <<>> THEN <<x>>
    ELSE IF Head(sorted).timestamp >= x.timestamp
         THEN <<Head(sorted)>> \o InsertDesc(Tail(sorted), x)
         ELSE <<x>> \o sorted

RECURSIVE SortDesc(_)
SortDesc(s) == IF s = <<>> THEN <<>> ELSE InsertDesc(SortDesc(SubSeq(s, 1, Len(s) - 1)), s[Len(s)])

IsJson(name) == name # <<>> /\ name[Len(name)] = ".json"

\* the loop of SnapshotStore::list over the entries read_dir yields
RECURSIVE LoadAll_until_failure(_, _)
LoadAll_until_failure(dir, order) ==
    IF order = <<>> THEN <<>>
    ELSE LET r == IF IsJson(Head(order)) THEN load_snapshot(dir[Head(order)]) ELSE Err("skip")
         IN  IF IsJson(Head(order)) /\ ~r.ok THEN <<>>
             ELSE (IF r.ok THEN <<r.val>> ELSE <<>>) \o LoadAll_until_failure(dir, Tail(order))
RECURSIVE LoadAll(_, _)
LoadAll(dir, order) ==
    IF order = <<>> THEN <<>>
    ELSE LET r == IF IsJson(Head(order)) THEN load_snapshot(dir[Head(order)]) ELSE Err("skip")
         IN  (IF r.ok THEN <<r.val>> ELSE <<>>) \o LoadAll(dir, Tail(order))

\* SnapshotStore::list, for the enumeration order that read_dir produced
list_ascending(dir, order) == Reverse(SortDesc(LoadAll(dir, order)))
list(dir, order) == SortDesc(LoadAll(dir, order))

\* every list that SnapshotStore::list can return for this directory
lists(dir) == {list(dir, o) : o \in ReadDirOrders(dir)}

\* one read_dir order for each listing that list() can return
ListingOrders(dir) ==
    {CHOOSE o \in ReadDirOrders(dir) : list(dir, o) = snaps : snaps \in lists(dir)}

\* SnapshotStore::find_by_id
find_by_id_first(snaps, partial_id) ==
    LET matches == SelectSeq(snaps, LAMBDA s : starts_with(s.id, partial_id))
    IN  IF Len(matches) = 0 THEN Err("SnapshotNotFound") ELSE Ok(matches[1])
find_by_id(snaps, partial_id) ==
    LET matches == SelectSeq(snaps, LAMBDA s : starts_with(s.id, partial_id))
    IN  IF Len(matches) = 0 THEN Err("SnapshotNotFound")
        ELSE IF Len(matches) = 1 THEN Ok(matches[1])
        ELSE Err("AmbiguousSnapshotId")

\* SnapshotStore::latest: the head of the list, as a set of at most one
latest(snaps) == IF snaps = <<>> THEN {} ELSE {Head(snaps)}

\* SnapshotStore::remove: the directories it can leave, one for each file
\* that read_dir may yield first among those whose name contains id[..8]
remove(dir, id) ==
    LET hit == {f \in DOMAIN dir : contains(f, Take(id, IdPrefixLen))}
    IN  IF hit = {} THEN {dir}
        ELSE {[f \in DOMAIN dir \ {g} |-> dir[f]] : g \in hit}

\* SnapshotStore::delete: the file-matching rule of remove, for one id
delete(dir, id) == remove(dir, id)

\* (now - timestamp).num_days()
num_days(clock, timestamp) == (clock - timestamp) \div (TicksPerSec * SecsPerDay)

\* should_remove in SnapshotStore::cleanup, i counted from 0
should_remove_by_count(i, age_days, max_snapshots, max_age_days) ==
    i >= max_snapshots
should_remove(i, age_days, max_snapshots, max_age_days) ==
    i >= max_snapshots \/ age_days > max_age_days

\* the loop of SnapshotStore::cleanup from position i of the list on:
\* the set of outcomes [dir, removed]
RECURSIVE cleanup_loop(_, _, _, _, _, _)
cleanup_loop(outs, snaps, i, max_snapshots, max_age_days, clock) ==
    IF i > Len(snaps) THEN outs
    ELSE LET age_days == num_days(clock, snaps[i].timestamp)
             next == IF should_remove(i - 1, age_days, max_snapshots, max_age_days)
                     THEN UNION {{[dir |-> d, removed |-> o.removed + 1] :
                                     d \in remove(o.dir, snaps[i].id)} : o \in outs}
                     ELSE outs
         IN  cleanup_loop(next, snaps, i + 1, max_snapshots, max_age_days, clock)

\* SnapshotStore::cleanup
cleanup(dir, max_snapshots, max_age_days, clock) ==
    UNION {cleanup_loop({[dir |-> dir, removed |-> 0]}, snaps, 1,
                        max_snapshots, max_age_days, clock) : snaps \in lists(dir)}

----------------------------------------------------------------------------
(* Garbage collector: src/src/storage/gc.rs *)

\* ObjectReferences::mark_from_snapshot over a list of snapshots
mark_first_only(snaps) ==
    IF snaps = <<>> THEN {} ELSE {snaps[1].files[j].hash : j \in 1..Len(snaps[1].files)}
mark(snaps) ==
    UNION {{snaps[i].files[j].hash : j \in 1..Len(snaps[i].files)} : i \in 1..Len(snaps)}

\* an entry of a prefix directory that is itself a directory: fs::read and
\* fs::remove_file fail on it
Directory == [body |-> <<>>, complete |-> FALSE, dir |-> TRUE]

\* the orders in which the two read_dir loops of list_all_objects can yield
\* the entries; where no entry is a directory every order has the same
\* outcome, and one stands for all
WalkOrders(objs) ==
    IF \A q \in DOMAIN objs : objs[q] # Directory
    THEN {CHOOSE o \in Orders(DOMAIN objs) : TRUE}
    ELSE Orders(DOMAIN objs)

\* list_all_objects: prefix directory name followed by entry name, for every
\* entry of every prefix directory, in the order walk of the read_dir loops
list_all_objects(objs, walk) == [i \in 1..Len(walk) |-> walk[i][1] \o walk[i][2]]

\* delete_objects: returns [objects, deleted, out]; the first entry whose
\* remove_file fails ends the loop with its error
RECURSIVE delete_loop(_, _, _)
delete_loop(acc, hashes_to_delete, i) ==
    IF i > Len(hashes_to_delete) THEN acc
    ELSE LET hash == hashes_to_delete[i]
             path == object_path(hash)
         IN  IF Len(hash) < 2 \/ path \notin DOMAIN acc.objects
             THEN delete_loop(acc, hashes_to_delete, i + 1)
             ELSE IF acc.objects[path] = Directory
             THEN [acc EXCEPT !.out = Err("Io")]
             ELSE delete_loop([acc EXCEPT
                                  !.objects = [q \in DOMAIN acc.objects \ {path} |->
                                                  acc.objects[q]],
                                  !.deleted = @ \cup {path}],
                              hashes_to_delete, i + 1)

delete_objects_first(objs, hashes_to_delete) ==
    delete_loop([objects |-> objs, deleted |-> {}, out |-> Ok(<<>>)],
                SubSeq(hashes_to_delete, 1, 1), 1)
delete_objects(objs, hashes_to_delete) ==
    delete_loop([objects |-> objs, deleted |-> {}, out |-> Ok(<<>>)],
                hashes_to_delete, 1)

----------------------------------------------------------------------------
(* Storage location: src/src/storage/location.rs *)

\* no storage root exists
NoRepo == "none"

\* the roots that find_existing looks for without an explicit directory
StorageRoots == {".mote", ".git/mote", ".jj/mote"}

\* no storage root beside the one the commands work on
NoShelf == [r \in {} |-> 0]

\* no snapshot-create process is under way
NoProcs == [i \in {} |-> 0]

\* a storage root as StorageLocation::init leaves it: empty objects/ and
\* snapshots/, no index
EmptyRoot == [objects |-> [q \in {} |-> 0], snapshots |-> [f \in {} |-> 0],
              index |-> NoIndex]

\* find_vcs_dir: .git if the project has it, else .jj; a set of at most one
find_vcs_dir(tr) ==
    IF \E p \in DOMAIN tr : p[1] = ".git" THEN {".git"}
    ELSE IF \E p \in DOMAIN tr : p[1] = ".jj" THEN {".jj"}
    ELSE {}

\* <vcs dir>/mote
VcsRoot(vcs_dir) == IF vcs_dir = ".git" THEN ".git/mote" ELSE ".jj/mote"

\* StorageLocation::find_existing; exists is the set of storage roots that
\* exist, and custom_storage_dir a set of at most one directory
find_existing_anywhere(exists, custom_storage_dir) ==
    IF custom_storage_dir # {} THEN Ok(CHOOSE d \in custom_storage_dir : TRUE)
    ELSE Ok(".mote")
find_existing_vcs_first(exists, custom_storage_dir) ==
    IF custom_storage_dir # {}
    THEN IF custom_storage_dir \subseteq exists
         THEN Ok(CHOOSE d \in custom_storage_dir : TRUE)
         ELSE Err("NotInitialized")
    ELSE IF ".git/mote" \in exists THEN Ok(".git/mote")
    ELSE IF ".jj/mote" \in exists THEN Ok(".jj/mote")
    ELSE IF ".mote" \in exists THEN Ok(".mote")
    ELSE Err("NotInitialized")
find_existing(exists, custom_storage_dir) ==
    IF custom_storage_dir # {}
    THEN IF custom_storage_dir \subseteq exists
         THEN Ok(CHOOSE d \in custom_storage_dir : TRUE)
         ELSE Err("NotInitialized")
    ELSE IF ".mote" \in exists THEN Ok(".mote")
    ELSE IF ".git/mote" \in exists THEN Ok(".git/mote")
    ELSE IF ".jj/mote" \in exists THEN Ok(".jj/mote")
    ELSE Err("NotInitialized")

\* StorageLocation::determine_storage_path; vcs_dir is what find_vcs_dir
\* returns
determine_storage_path(vcs_dir, strategy) ==
    IF strategy = "root" THEN Ok(".mote")
    ELSE IF vcs_dir # {} THEN Ok(VcsRoot(CHOOSE v \in vcs_dir : TRUE))
    ELSE IF strategy = "vcs" THEN Err("NoVcsDirectory")
    ELSE Ok(".mote")

\* StorageLocation::init: the root to create, or the error
init_over(exists, vcs_dir, strategy, custom_storage_dir) ==
    IF custom_storage_dir # {}
    THEN Ok(CHOOSE d \in custom_storage_dir : TRUE)
    ELSE determine_storage_path(vcs_dir, strategy)
init(exists, vcs_dir, strategy, custom_storage_dir) ==
    LET storage_root == IF custom_storage_dir # {}
                        THEN Ok(CHOOSE d \in custom_storage_dir : TRUE)
                        ELSE determine_storage_path(vcs_dir, strategy)
    IN  IF ~storage_root.ok THEN storage_root
        ELSE IF storage_root.val \in exists THEN Err("AlreadyInitialized")
        ELSE storage_root

----------------------------------------------------------------------------
(* Configuration layers: src/src/config/mod.rs, resolver.rs *)

\* Config::default
default_config ==
    [location_strategy |-> "root", auto_cleanup |-> TRUE, max_snapshots |-> 1000,
     max_age_days |-> 30, gc_auto_enabled |-> FALSE, gc_auto |-> 100,
     ignore_file |-> ".moteignore"]

Settings == DOMAIN default_config

\* a config.toml that sets nothing: each setting is a set of at most one value
EmptyFile == [f \in Settings |-> {}]

\* the values a config.toml is given in what follows, the default among them
SettingValues ==
    [location_strategy |-> {"root", "vcs", "auto"}, auto_cleanup |-> {TRUE, FALSE},
     max_snapshots |-> {1000, 1, 2}, max_age_days |-> {30, 1},
     gc_auto_enabled |-> {FALSE, TRUE}, gc_auto |-> {100, 1},
     ignore_file |-> {".moteignore", ".gitignore"}]

\* the config.toml files that set at most one setting
ConfigFiles ==
    {EmptyFile} \cup
    UNION {{[EmptyFile EXCEPT ![f] = {v}] : v \in SettingValues[f]} : f \in Settings}

Layers == {"global", "project", "context"}

\* a configuration directory without any config.toml
NoConfigFiles == [l \in Layers |-> {}]

\* toml::from_str::<Config>: a setting the file leaves out takes its serde
\* default
from_str(file) ==
    [f \in Settings |-> IF file[f] = {} THEN default_config[f]
                        ELSE CHOOSE v \in file[f] : TRUE]

\* Config::load_from_path: a missing file is the default configuration
load_from_path(files) ==
    IF files = {} THEN default_config ELSE from_str(CHOOSE file \in files : TRUE)

\* ConfigResolver::load: the global configuration, the project's if the
\* project is found, and the context's if both exist; each a set of at most
\* one Config
load_layers(dir) ==
    [global_config |-> load_from_path(dir.global),
     project_config |-> {from_str(file) : file \in dir.project},
     context_config |-> IF dir.project = {} THEN {}
                        ELSE {from_str(file) : file \in dir.context}]

\* ConfigResolver::merge_config
merge_config(target, source) ==
    [target EXCEPT
        !.location_strategy =
            IF source.location_strategy # default_config.location_strategy
            THEN source.location_strategy ELSE @,
        !.auto_cleanup =
            IF source.auto_cleanup # default_config.auto_cleanup
            THEN source.auto_cleanup ELSE @,
        !.max_snapshots =
            IF source.max_snapshots # default_config.max_snapshots
            THEN source.max_snapshots ELSE @,
        !.max_age_days =
            IF source.max_age_days # default_config.max_age_days
            THEN source.max_age_days ELSE @,
        !.ignore_file =
            IF source.ignore_file # default_config.ignore_file
            THEN source.ignore_file ELSE @]

\* ConfigResolver::resolve
resolve(self) ==
    LET with_project == IF self.project_config = {} THEN self.global_config
                        ELSE merge_config(self.global_config,
                                          CHOOSE c \in self.project_config : TRUE)
    IN  IF self.context_config = {} THEN with_project
        ELSE merge_config(with_project, CHOOSE c \in self.context_config : TRUE)

----------------------------------------------------------------------------
(* Commands: src/src/commands/snapshot/mod.rs, gc.rs *)

\* what cmd_snapshot returns when no repository is found: auto runs pass for
\* a success that did nothing
not_found(e, auto) ==
    IF auto THEN Ok([files |-> <<>>, saved |-> FALSE, removed |-> 0]) ELSE e

\* main: the exit status of the process
exit_code(out) == IF out.ok THEN 0 ELSE 1


\* retention settings: [auto_cleanup, max_snapshots, max_age_days]
DefaultConfig == [auto_cleanup |-> TRUE, max_snapshots |-> MaxSnaps, max_age_days |-> MaxTime]
KeepOne == [auto_cleanup |-> TRUE, max_snapshots |-> 1, max_age_days |-> MaxTime]
KeepToday == [auto_cleanup |-> TRUE, max_snapshots |-> MaxSnaps, max_age_days |-> 0]
KeepAll == [auto_cleanup |-> FALSE, max_snapshots |-> 1, max_age_days |-> 0]
Configs == {DefaultConfig, KeepOne, KeepToday, KeepAll}

\* files.is_empty()
is_empty_never(files) == FALSE
is_empty(files) == files = <<>>

\* snapshots.iter().max_by_key(|s| s.timestamp): the last of the maxima
max_by_key(snaps) ==
    LET i == CHOOSE k \in 1..Len(snaps) :
                 /\ \A j \in 1..Len(snaps) : snaps[j].timestamp <= snaps[k].timestamp
                 /\ \A j \in (k + 1)..Len(snaps) : snaps[j].timestamp < snaps[k].timestamp
    IN  snaps[i]

\* cmd_snapshot in an initialized repository: the set of outcomes
\* [objects, index, snapshots, out], over the orders read_dir may produce
cmd_snapshot(tr, pats, objs, idx, dir, clock, message, trigger, auto, config) ==
    LET loaded == load(idx)
        scan == collect_files(tr, pats, objs, loaded.val)
        files == scan.files
        saved_index == save_index(scan.entries)
        unchanged(snaps) ==
            /\ auto
            /\ snaps # <<>>
            /\ have_same_file_hashes(max_by_key(snaps).files, files)
        snapshot == NewSnapshot(files, message, trigger, clock)
        saved == save(dir, snapshot)
        outcome(d, made, removed) ==
            [objects |-> scan.objects, index |-> saved_index, snapshots |-> d,
             out |-> Ok([files |-> files, saved |-> made, removed |-> removed])]
    IN  IF ~loaded.ok
        THEN {[objects |-> objs, index |-> idx, snapshots |-> dir, out |-> loaded]}
        ELSE IF is_empty(files) THEN {outcome(dir, FALSE, 0)}
        ELSE UNION {
            IF unchanged(snaps) THEN {outcome(dir, FALSE, 0)}
            ELSE IF config.auto_cleanup
                 THEN {outcome(c.dir, TRUE, c.removed) :
                          c \in cleanup(saved, config.max_snapshots, config.max_age_days, clock)}
                 ELSE {outcome(saved, TRUE, 0)}
            : snaps \in lists(dir)}

\* cmd_delete: the set of outcomes [snapshots, out]; answer tells whether the
\* user confirms at the prompt
cmd_delete(dir, snapshot_id, force, answer) ==
    LET deleted(found) ==
            IF ~found.ok THEN {[snapshots |-> dir, out |-> found]}
            ELSE IF ~force /\ ~answer THEN {[snapshots |-> dir, out |-> Ok("cancelled")]}
            ELSE {[snapshots |-> d, out |-> Ok("deleted")] : d \in delete(dir, found.val.id)}
    IN  UNION {deleted(find_by_id(snaps, snapshot_id)) : snaps \in lists(dir)}

\* cmd_gc: returns [objects, out]
cmd_gc(objs, dir, order, walk, dry_run) ==
    LET snaps == list(dir, order)
        refs == mark(snaps)
        all_objects == list_all_objects(objs, walk)
        kept == SelectSeq(all_objects, LAMBDA h : h \notin refs)
        unreferenced == {kept[i] : i \in 1..Len(kept)}
    IN  IF unreferenced = {} \/ dry_run
        THEN [objects |-> objs, out |-> Ok([deleted |-> {}, unreferenced |-> unreferenced])]
        ELSE LET stats == delete_objects(objs, kept)
             IN  [objects |-> stats.objects,
                  out |-> IF stats.out.ok
                          THEN Ok([deleted |-> stats.deleted,
                                   unreferenced |-> unreferenced])
                          ELSE stats.out]

----------------------------------------------------------------------------
(* Restore: src/src/commands/snapshot/restore.rs *)

\* the working-tree root, as an absolute path: "/" and one name
project_root == <<"/", "w">>

\* Path::is_absolute
is_absolute(path) == path # <<>> /\ Head(path) = "/"

\* Path::strip_prefix
strip_prefix(path, base) ==
    IF starts_with(path, base) THEN Ok(Drop(path, Len(base))) ELSE Err("StripPrefix")

\* Path::join: an absolute argument replaces the base
join(base, path) == IF is_absolute(path) THEN path ELSE base \o path

\* the file that the operating system opens for a path: each ".." steps
\* back over the component before it, and stays at "/"
RECURSIVE walk_to(_, _)
walk_to(at, path) ==
    IF path = <<>> THEN at
    ELSE IF Head(path) = ".."
         THEN walk_to(IF Len(at) > 1 THEN SubSeq(at, 1, Len(at) - 1) ELSE at, Tail(path))
         ELSE walk_to(Append(at, Head(path)), Tail(path))

\* where a path is kept: a file under the working-tree root by its path from
\* the root, any other file by its absolute path
place(path) ==
    LET at == walk_to(<<>>, path)
    IN  IF starts_with(at, project_root) /\ Len(at) > Len(project_root)
        THEN Drop(at, Len(project_root))
        ELSE at

\* the first lines of restore_single_file: the path looked up in the manifest
relative_path(file_path) ==
    IF is_absolute(file_path)
    THEN LET stripped == strip_prefix(file_path, project_root)
         IN  IF stripped.ok THEN stripped.val ELSE file_path
    ELSE file_path

\* restore_single_file: returns [tree, out]; tr holds the files that the
\* process can reach, inside the working tree and outside of it
restore_single_file_no_delete(tr, snapshot, objs, file_path, dry_run, clock) ==
    LET found == find_file(snapshot, file_path)
    IN  IF found # {}
        THEN IF dry_run THEN [tree |-> tr, out |-> Ok(<<>>)]
             ELSE restore_file(objs, tr, (CHOOSE e \in found : TRUE).hash, file_path, clock)
        ELSE [tree |-> tr, out |-> Ok(<<>>)]
restore_single_file(tr, snapshot, objs, file_path, dry_run, clock) ==
    LET found == find_file(snapshot, relative_path(file_path))
        dest == place(join(project_root, relative_path(file_path)))
    IN  IF found # {}
        THEN IF dry_run THEN [tree |-> tr, out |-> Ok(<<>>)]
             ELSE restore_file(objs, tr, (CHOOSE e \in found : TRUE).hash, dest, clock)
        ELSE IF dest \in DOMAIN tr /\ ~dry_run
             THEN [tree |-> [q \in DOMAIN tr \ {dest} |-> tr[q]], out |-> Ok(<<>>)]
             ELSE [tree |-> tr, out |-> Ok(<<>>)]

\* create_backup_snapshot saving the files of the target instead of the scan
create_backup_snapshot_target(tr, pats, objs, dir, target_snapshot, entries, clock, writable) ==
    LET message == <<"Backup before restore to ">> \o short_id(target_snapshot)
        taken(scan) ==
            [objects |-> scan.objects, entries |-> scan.entries, files |-> scan.files,
             snapshots |-> IF scan.files = <<>> \/ ~writable THEN dir
                           ELSE save(dir, NewSnapshot(target_snapshot.files, message,
                                                      "auto-backup", clock)),
             saved |-> scan.files # <<>> /\ writable,
             failed |-> scan.files # <<>> /\ ~writable]
    IN  taken(collect_files(tr, pats, objs, entries))

\* create_backup_snapshot: returns [objects, entries, snapshots, files, saved,
\* failed]; writable tells whether fs::write into the snapshots directory
\* succeeds
create_backup_snapshot(tr, pats, objs, dir, target_snapshot, entries, clock, writable) ==
    LET message == <<"Backup before restore to ">> \o short_id(target_snapshot)
        taken(scan) ==
            [objects |-> scan.objects, entries |-> scan.entries, files |-> scan.files,
             snapshots |-> IF scan.files = <<>> \/ ~writable THEN dir
                           ELSE save(dir, NewSnapshot(scan.files, message, "auto-backup", clock)),
             saved |-> scan.files # <<>> /\ writable,
             failed |-> scan.files # <<>> /\ ~writable]
    IN  taken(collect_files(tr, pats, objs, entries))

\* the loop of restore_files from position i of the manifest on:
\* acc is [tree, restored, skipped, failed]; fs::read of a destination that
\* exists and cannot be opened ends the loop with its error
RECURSIVE restore_loop(_, _, _, _, _, _)
restore_loop(acc, snapshot, i, objs, dry_run, clock) ==
    IF i > Len(snapshot.files) THEN acc
    ELSE LET file == snapshot.files[i]
             unread == /\ file.path \in DOMAIN acc.tree
                       /\ ~acc.tree[file.path].readable
             same == /\ file.path \in DOMAIN acc.tree
                     /\ compute_hash(acc.tree[file.path].content) = file.hash
             r == restore_file(objs, acc.tree, file.hash, file.path, clock)
             next == IF dry_run THEN [acc EXCEPT !.restored = @ + 1]
                     ELSE IF same THEN acc
                     ELSE IF r.out.ok
                          THEN [acc EXCEPT !.tree = r.tree, !.restored = @ + 1]
                          ELSE acc
         IN  IF ~dry_run /\ unread THEN [acc EXCEPT !.failed = TRUE]
             ELSE restore_loop(next, snapshot, i + 1, objs, dry_run, clock)

\* restore_files: returns [tree, restored, skipped, failed]
restore_files_wet(tr, snapshot, objs, dry_run, clock) ==
    restore_loop([tree |-> tr, restored |-> 0, skipped |-> 0, failed |-> FALSE],
                 snapshot, 1, objs, FALSE, clock)
restore_files_mirror(tr, snapshot, objs, dry_run, clock) ==
    LET done == restore_loop([tree |-> tr, restored |-> 0, skipped |-> 0, failed |-> FALSE],
                             snapshot, 1, objs, dry_run, clock)
        listed == {snapshot.files[i].path : i \in 1..Len(snapshot.files)}
    IN  [done EXCEPT !.tree = [p \in DOMAIN done.tree \cap listed |-> done.tree[p]]]
restore_files(tr, snapshot, objs, dry_run, clock) ==
    restore_loop([tree |-> tr, restored |-> 0, skipped |-> 0, failed |-> FALSE],
                 snapshot, 1, objs, dry_run, clock)

\* restore_all_files with the backup taken after the files are written
restore_all_files_backup_last(tr, pats, snapshot, objs, dir, entries, force, dry_run, clock, writable) ==
    LET report(backup, done) ==
            [tree |-> done.tree, objects |-> backup.objects, entries |-> backup.entries,
             snapshots |-> backup.snapshots, saved |-> backup.saved,
             out |-> IF backup.failed \/ done.failed THEN Err("Io")
                     ELSE Ok([restored |-> done.restored, skipped |-> done.skipped,
                              files |-> backup.files, backup |-> backup.saved])]
        backed(done) ==
            report(IF ~force /\ ~dry_run
                   THEN create_backup_snapshot(done.tree, pats, objs, dir, snapshot, entries,
                                               clock, writable)
                   ELSE [objects |-> objs, entries |-> entries, files |-> <<>>,
                         snapshots |-> dir, saved |-> FALSE, failed |-> FALSE],
                   done)
    IN  backed(restore_files(tr, snapshot, objs, dry_run, clock))

\* restore_all_files: returns [tree, objects, entries, snapshots, out, saved];
\* the backup reads the clock before the first file is written, and a backup
\* that cannot be saved ends the restore
restore_all_files(tr, pats, snapshot, objs, dir, entries, force, dry_run, clock, writable) ==
    LET report(backup, done) ==
            [tree |-> done.tree, objects |-> backup.objects, entries |-> backup.entries,
             snapshots |-> backup.snapshots, saved |-> backup.saved,
             out |-> IF done.failed THEN Err("Io")
                     ELSE Ok([restored |-> done.restored, skipped |-> done.skipped,
                              files |-> backup.files, backup |-> backup.saved])]
        restored(backup) ==
            IF backup.failed
            THEN [tree |-> tr, objects |-> backup.objects, entries |-> backup.entries,
                  snapshots |-> dir, saved |-> FALSE, out |-> Err("Io")]
            ELSE report(backup, restore_files(tr, snapshot, backup.objects, dry_run,
                                              IF backup.saved THEN clock + 1 ELSE clock))
    IN  IF ~force /\ ~dry_run
        THEN restored(create_backup_snapshot(tr, pats, objs, dir, snapshot, entries, clock,
                                             writable))
        ELSE restored([objects |-> objs, entries |-> entries, files |-> <<>>,
                       snapshots |-> dir, saved |-> FALSE, failed |-> FALSE])

\* cmd_restore in an initialized repository; file is a set of at most one
\* path: returns [tree, objects, index, snapshots, out, saved]
cmd_restore(tr, pats, objs, idx, dir, order, clock, snapshot_id, file, force, dry_run, writable) ==
    LET kept(t, out) == [tree |-> t, objects |-> objs, index |-> idx, snapshots |-> dir,
                         saved |-> FALSE, out |-> out]
        single(r) ==
            kept(r.tree, IF r.out.ok
                         THEN Ok([restored |-> 0, skipped |-> 0, files |-> <<>>,
                                  backup |-> FALSE])
                         ELSE r.out)
        full(r) ==
            [tree |-> r.tree, objects |-> r.objects,
             index |-> IF r.out.ok THEN save_index(r.entries) ELSE idx,
             snapshots |-> r.snapshots, saved |-> r.saved, out |-> r.out]
        run(found) ==
            IF ~found.ok THEN kept(tr, found)
            ELSE IF file # {}
            THEN single(restore_single_file(tr, found.val, objs, CHOOSE f \in file : TRUE,
                                            dry_run, clock))
            ELSE IF ~load(idx).ok THEN kept(tr, load(idx))
            ELSE full(restore_all_files(tr, pats, found.val, objs, dir, load(idx).val,
                                        force, dry_run, clock, writable))
    IN  run(find_by_id(list(dir, order), snapshot_id))

----------------------------------------------------------------------------
(* Diff: src/src/commands/snapshot/diff.rs *)

\* files_to_map: path -> entry, a later entry replacing an earlier one
files_to_map(files) ==
    [p \in {files[i].path : i \in 1..Len(files)} |->
        files[CHOOSE i \in 1..Len(files) :
                 /\ files[i].path = p
                 /\ \A k \in (i + 1)..Len(files) : files[k].path # p]]

\* generate_unified_diff_with_content: hash1 = <<>> stands for the empty
\* string; the hunks are kept as the two texts: returns [out, lines]
generate_unified_diff_with_content(objs, path, hash1, content2) ==
    LET got == IF hash1 = <<>> THEN Ok(<<>>) ELSE retrieve(objs, hash1)
        content1 == IF got.ok THEN got.val ELSE <<>>
    IN  IF ~got.ok /\ got.err # "ObjectNotFound" THEN [out |-> got, lines |-> <<>>]
        ELSE IF content1 = <<>> /\ content2 = <<>> THEN [out |-> Ok(<<>>), lines |-> <<>>]
        ELSE [out |-> Ok(<<>>), lines |-> << <<"diff", path, content1, content2>> >>]

\* generate_unified_diff
generate_unified_diff(objs, path, hash1, hash2) ==
    LET got == IF hash2 = <<>> THEN Ok(<<>>) ELSE retrieve(objs, hash2)
    IN  IF got.ok THEN generate_unified_diff_with_content(objs, path, hash1, got.val)
        ELSE IF got.err = "ObjectNotFound" THEN [out |-> Ok(<<>>), lines |-> <<>>]
        ELSE [out |-> got, lines |-> <<>>]

\* the body of the first loop of diff_snapshots, for one path of files2
compare_entry(objs, files1, files2, path, name_only) ==
    IF path \in DOMAIN files1
    THEN IF files1[path].hash # files2[path].hash
         THEN IF name_only THEN [out |-> Ok(<<>>), lines |-> << <<"M", path>> >>]
              ELSE generate_unified_diff(objs, path, files1[path].hash, files2[path].hash)
         ELSE [out |-> Ok(<<>>), lines |-> <<>>]
    ELSE IF name_only THEN [out |-> Ok(<<>>), lines |-> << <<"A", path>> >>]
         ELSE generate_unified_diff(objs, path, <<>>, files2[path].hash)

\* the body of the second loop of diff_snapshots, for one path of files1
deleted_entry_unreported(objs, files1, files2, path, name_only) ==
    [out |-> Ok(<<>>), lines |-> <<>>]
deleted_entry(objs, files1, files2, path, name_only) ==
    IF path \notin DOMAIN files2
    THEN IF name_only THEN [out |-> Ok(<<>>), lines |-> << <<"D", path>> >>]
         ELSE generate_unified_diff(objs, path, files1[path].hash, <<>>)
    ELSE [out |-> Ok(<<>>), lines |-> <<>>]

\* the two loops of diff_snapshots over the orders in which the hash maps
\* yield their keys; an error ends the run: acc is [out, lines]
RECURSIVE compare_loop(_, _, _, _, _, _, _)
compare_loop(acc, objs, files1, files2, order, i, name_only) ==
    IF i > Len(order) \/ ~acc.out.ok THEN acc
    ELSE LET next(r) == [out |-> r.out, lines |-> acc.lines \o r.lines]
         IN  compare_loop(next(compare_entry(objs, files1, files2, order[i], name_only)),
                          objs, files1, files2, order, i + 1, name_only)

RECURSIVE deleted_loop(_, _, _, _, _, _, _)
deleted_loop(acc, objs, files1, files2, order, i, name_only) ==
    IF i > Len(order) \/ ~acc.out.ok THEN acc
    ELSE LET next(r) == [out |-> r.out, lines |-> acc.lines \o r.lines]
         IN  deleted_loop(next(deleted_entry(objs, files1, files2, order[i], name_only)),
                          objs, files1, files2, order, i + 1, name_only)

\* diff_snapshots: the set of outcomes [out, lines] over the iteration orders
\* of the two hash maps; the first two lines are the heading
diff_snapshots(snapshot1, snapshot2, objs, name_only) ==
    LET files1 == files_to_map(snapshot1.files)
        files2 == files_to_map(snapshot2.files)
        heading == << <<"Comparing", short_id(snapshot1), short_id(snapshot2)>>, <<>> >>
    IN  {deleted_loop(compare_loop([out |-> Ok(<<>>), lines |-> heading],
                                   objs, files1, files2, o2, 1, name_only),
                      objs, files1, files2, o1, 1, name_only) :
            o1 \in Orders(DOMAIN files1), o2 \in Orders(DOMAIN files2)}

\* cmd_diff of two snapshots in an initialized repository, printed to the
\* terminal: the set of outcomes, each Ok(lines) or an error
cmd_diff(objs, dir, snapshot_id, snapshot_id2, name_only) ==
    LET compared(first, second) ==
            IF ~first.ok THEN {first}
            ELSE IF ~second.ok THEN {second}
            ELSE {IF r.out.ok THEN Ok(r.lines) ELSE r.out :
                     r \in diff_snapshots(first.val, second.val, objs, name_only)}
    IN  UNION {compared(find_by_id(snaps, snapshot_id), find_by_id(snaps, snapshot_id2)) :
                  snaps \in lists(dir)}

----------------------------------------------------------------------------
(* State machine *)

NoObjects == [q \in {} |-> 0]
NoFiles == [p \in {} |-> 0]

Res(op, arg, out) == [op |-> op, arg |-> arg, out |-> out]
Quiet == Res("none", <<>>, Ok(<<>>))

Init ==
    /\ tree = NoFiles
    /\ ignore = {}
    /\ objects = NoObjects
    /\ snapshots = NoFiles
    /\ index = NoIndex
    /\ now = 0
    /\ result = Quiet
    /\ repo = ".mote"
    /\ shelved = NoShelf
    /\ procs = NoProcs
    /\ config_dir = NoConfigFiles
    /\ beside = NoFiles

\* the project before mote init
InitBare ==
    /\ tree = NoFiles
    /\ ignore = {}
    /\ objects = NoObjects
    /\ snapshots = NoFiles
    /\ index = NoIndex
    /\ now = 0
    /\ result = Quiet
    /\ repo = NoRepo
    /\ shelved = NoShelf
    /\ procs = NoProcs
    /\ config_dir = NoConfigFiles
    /\ beside = NoFiles

\* the user writes a file of the working tree; the write stamps the file
\* with the current time, or keeps the mtime the file had (a timestamp
\* too coarse to tell the two writes apart, or one that was set back)
WriteFile(p, c, keep) ==
    /\ (p \in DOMAIN tree => tree[p].content # c)
    /\ (keep => p \in DOMAIN tree /\ tree[p].mtime # now)
    /\ tree' = [q \in DOMAIN tree \cup {p} |->
                  IF q = p THEN FileRec(c, IF keep THEN tree[p].mtime ELSE now)
                  ELSE tree[q]]
    /\ result' = Quiet
    /\ UNCHANGED <<ignore, objects, snapshots, index, now, repo, shelved, procs, config_dir, beside>>

\* the user deletes a file of the working tree
DeleteFile(p) ==
    /\ p \in DOMAIN tree
    /\ tree' = [q \in DOMAIN tree \ {p} |-> tree[q]]
    /\ result' = Quiet
    /\ UNCHANGED <<ignore, objects, snapshots, index, now, repo, shelved, procs, config_dir, beside>>

\* a file is written outside the working-tree root, at the absolute path p
WriteBeside(p, c) ==
    /\ is_absolute(p)
    /\ ~starts_with(p, project_root)
    /\ (p \in DOMAIN beside => beside[p].content # c)
    /\ beside' = [q \in DOMAIN beside \cup {p} |-> IF q = p THEN FileRec(c, now) ELSE beside[q]]
    /\ result' = Quiet
    /\ UNCHANGED <<tree, ignore, objects, snapshots, index, now, repo, shelved, procs, config_dir>>

\* the user takes every permission bit off a file (chmod 000)
Chmod(p) ==
    /\ p \in DOMAIN tree
    /\ tree[p].readable
    /\ tree' = [tree EXCEPT ![p].readable = FALSE]
    /\ result' = Quiet
    /\ UNCHANGED <<ignore, objects, snapshots, index, now, repo, shelved, procs, config_dir, beside>>

\* the user edits the ignore file
EditIgnore(pats) ==
    /\ pats # ignore
    /\ ignore' = pats
    /\ result' = Quiet
    /\ UNCHANGED <<tree, objects, snapshots, index, now, repo, shelved, procs, config_dir, beside>>

\* time passes
Tick ==
    /\ now < MaxTime
    /\ now' = now + 1
    /\ result' = Quiet
    /\ UNCHANGED <<tree, ignore, objects, snapshots, index, repo, shelved, procs, config_dir, beside>>

Store(B) ==
    /\ objects' = store(objects, B)[1]
    /\ result' = Res("store", B, Ok(store(objects, B)[2]))
    /\ UNCHANGED <<tree, ignore, snapshots, index, now, repo, shelved, procs, config_dir, beside>>

StoreFile(p) ==
    /\ p \in DOMAIN tree
    /\ objects' = store_file(objects, tree[p])[1]
    /\ result' = Res("store_file", tree[p].content, Ok(store_file(objects, tree[p])[2]))
    /\ UNCHANGED <<tree, ignore, snapshots, index, now, repo, shelved, procs, config_dir, beside>>

Retrieve(h) ==
    /\ result' = Res("retrieve", h, retrieve(objects, h))
    /\ UNCHANGED <<tree, ignore, objects, snapshots, index, now, repo, shelved, procs, config_dir, beside>>

\* a store of B is interrupted while fs::write is writing the object file
StoreCrash(B) ==
    /\ object_path(compute_hash(B)) \notin DOMAIN objects
    /\ objects' = [q \in DOMAIN objects \cup {object_path(compute_hash(B))} |->
                      IF q = object_path(compute_hash(B)) THEN Truncated ELSE objects[q]]
    /\ result' = Quiet
    /\ UNCHANGED <<tree, ignore, snapshots, index, now, repo, shelved, procs, config_dir, beside>>

\* the medium damages an object file: it now decodes to other bytes
Corrupt(q, B) ==
    /\ q \in DOMAIN objects
    /\ object_path(compute_hash(B)) # q
    /\ objects[q] # encode_all(B)
    /\ objects' = [objects EXCEPT ![q] = encode_all(B)]
    /\ result' = Quiet
    /\ UNCHANGED <<tree, ignore, snapshots, index, now, repo, shelved, procs, config_dir, beside>>

\* an object file is gone from the store
RemoveObject(q) ==
    /\ q \in DOMAIN objects
    /\ objects' = [r \in DOMAIN objects \ {q} |-> objects[r]]
    /\ result' = Quiet
    /\ UNCHANGED <<tree, ignore, snapshots, index, now, repo, shelved, procs, config_dir, beside>>

\* the user leaves a file under a prefix directory of objects/
Stray(q) ==
    /\ q \notin DOMAIN objects
    /\ objects' = [r \in DOMAIN objects \cup {q} |->
                     IF r = q THEN Truncated ELSE objects[r]]
    /\ result' = Quiet
    /\ UNCHANGED <<tree, ignore, snapshots, index, now, repo, shelved, procs, config_dir, beside>>

\* the user makes a directory under a prefix directory of objects/
Mkdir(q) ==
    /\ q \notin DOMAIN objects
    /\ objects' = [r \in DOMAIN objects \cup {q} |->
                     IF r = q THEN Directory ELSE objects[r]]
    /\ result' = Quiet
    /\ UNCHANGED <<tree, ignore, snapshots, index, now, repo, shelved, procs, config_dir, beside>>

List ==
    /\ \E snaps \in lists(snapshots) :
          result' = Res("list", <<>>, Ok(snaps))
    /\ UNCHANGED <<tree, ignore, objects, snapshots, index, now, repo, shelved, procs, config_dir, beside>>

Latest ==
    /\ \E snaps \in lists(snapshots) :
          result' = Res("latest", <<>>, Ok(latest(snaps)))
    /\ UNCHANGED <<tree, ignore, objects, snapshots, index, now, repo, shelved, procs, config_dir, beside>>

Partials == UNION {[1..n -> HexDigit] : n \in 1..2}

FindById(partial) ==
    /\ \E snaps \in lists(snapshots) :
          result' = Res("find_by_id", partial, find_by_id(snaps, partial))
    /\ UNCHANGED <<tree, ignore, objects, snapshots, index, now, repo, shelved, procs, config_dir, beside>>

\* snapshot-create; two readings of the clock never agree, so a run that
\* stamps a snapshot moves the clock on
CmdSnapshot_touching(auto, config) ==
    /\ \E r \in cmd_snapshot(tree, ignore, objects, index, snapshots, now,
                             "", "manual", auto, config) :
          /\ Cardinality(DOMAIN r.snapshots) <= MaxSnaps
          /\ (r.out.ok /\ r.out.val.saved) => now < MaxTime
          /\ objects' = r.objects
          /\ index' = r.index
          /\ snapshots' = r.snapshots
          /\ now' = IF r.out.ok /\ r.out.val.saved THEN now + 1 ELSE now
          /\ result' = Res("snapshot", auto, r.out)
    /\ tree' = [p \in DOMAIN tree |-> FileRec(tree[p].content, now)]
    /\ UNCHANGED <<ignore, repo, shelved, procs, config_dir, beside>>
CmdSnapshot(auto, config) ==
    /\ \E r \in cmd_snapshot(tree, ignore, objects, index, snapshots, now,
                             "", "manual", auto, config) :
          /\ Cardinality(DOMAIN r.snapshots) <= MaxSnaps
          /\ (r.out.ok /\ r.out.val.saved) => now < MaxTime
          /\ objects' = r.objects
          /\ index' = r.index
          /\ snapshots' = r.snapshots
          /\ now' = IF r.out.ok /\ r.out.val.saved THEN now + 1 ELSE now
          /\ result' = Res("snapshot", auto, r.out)
    /\ UNCHANGED <<tree, ignore, repo, shelved, procs, config_dir, beside>>

\* the index file is damaged, or was left half-written by a run that was
\* interrupted: bincode no longer decodes it
DamageIndex ==
    /\ index.present
    /\ index.valid
    /\ index' = PartialIndex
    /\ result' = Quiet
    /\ UNCHANGED <<tree, ignore, objects, snapshots, now, repo, shelved, procs, config_dir, beside>>

\* the user removes the index file
RemoveIndex ==
    /\ index.present
    /\ index' = NoIndex
    /\ result' = Quiet
    /\ UNCHANGED <<tree, ignore, objects, snapshots, now, repo, shelved, procs, config_dir, beside>>

\* a manifest file is damaged, or was left half-written: it no longer parses
DamageManifest(f) ==
    /\ f \in DOMAIN snapshots
    /\ snapshots[f].json
    /\ snapshots' = [snapshots EXCEPT ![f].json = FALSE]
    /\ result' = Quiet
    /\ UNCHANGED <<tree, ignore, objects, index, now, repo, shelved, procs, config_dir, beside>>

\* the user keeps a copy of a manifest beside it, under another extension
CopyManifest(f) ==
    /\ f \in DOMAIN snapshots
    /\ \A g \in DOMAIN snapshots : IsJson(g)
    /\ snapshots' = [g \in DOMAIN snapshots \cup {f \o <<".bak">>} |->
                       IF g \in DOMAIN snapshots THEN snapshots[g] ELSE snapshots[f]]
    /\ result' = Quiet
    /\ UNCHANGED <<tree, ignore, objects, index, now, repo, shelved, procs, config_dir, beside>>

\* the storage roots that exist
Existing == (IF repo = NoRepo THEN {} ELSE {repo}) \cup DOMAIN shelved

\* the contents of the storage root r
Contents(r) ==
    IF r = repo THEN [objects |-> objects, snapshots |-> snapshots, index |-> index]
    ELSE IF r \in DOMAIN shelved THEN shelved[r]
    ELSE EmptyRoot

\* the roots beside r once the commands work on r
Beside(r) == [q \in (Existing \cup {r}) \ {r} |-> Contents(q)]

\* mote init, with the global --storage-dir or without; the default ignore
\* file it writes has no pattern that matches a path of FilePaths
CmdInitAt(strategy, storage_dir) ==
    /\ LET made == init(Existing, find_vcs_dir(tree), strategy, storage_dir)
       IN  /\ IF ~made.ok THEN UNCHANGED <<repo, shelved>>
              ELSE IF repo = NoRepo THEN repo' = made.val /\ shelved' = shelved
              ELSE /\ repo' = repo
                   /\ shelved' = [q \in DOMAIN shelved \cup {made.val} |->
                                    IF q = made.val THEN EmptyRoot ELSE shelved[q]]
           /\ result' = Res("init", [strategy |-> strategy, storage_dir |-> storage_dir],
                            made)
    /\ UNCHANGED <<tree, ignore, objects, snapshots, index, now, procs, config_dir, beside>>

CmdInit(strategy) == CmdInitAt(strategy, {})

\* resolve_location of a command that then only reads: the root it works on
FindExisting(storage_dir) ==
    /\ LET location == find_existing(Existing, storage_dir)
       IN  /\ IF location.ok
              THEN /\ repo' = location.val
                   /\ shelved' = Beside(location.val)
                   /\ objects' = Contents(location.val).objects
                   /\ snapshots' = Contents(location.val).snapshots
                   /\ index' = Contents(location.val).index
              ELSE UNCHANGED <<repo, shelved, objects, snapshots, index>>
           /\ result' = Res("locate", storage_dir, location)
    /\ UNCHANGED <<tree, ignore, now, procs, config_dir, beside>>

\* snapshot-create from the command line: the repository is looked for, and
\* created when an explicit storage directory does not exist yet
CmdSnapshotAt(storage_dir, auto, config) ==
    LET location == find_existing(Existing, storage_dir)
        made == IF location.ok \/ storage_dir = {} THEN location
                ELSE init(Existing, find_vcs_dir(tree), "root", storage_dir)
    IN  IF made.ok
        THEN /\ repo' = made.val
             /\ shelved' = Beside(made.val)
             /\ \E r \in cmd_snapshot(tree, ignore, Contents(made.val).objects,
                                      Contents(made.val).index,
                                      Contents(made.val).snapshots, now,
                                      "", "manual", auto, config) :
                   /\ Cardinality(DOMAIN r.snapshots) <= MaxSnaps
                   /\ (r.out.ok /\ r.out.val.saved) => now < MaxTime
                   /\ objects' = r.objects
                   /\ index' = r.index
                   /\ snapshots' = r.snapshots
                   /\ now' = IF r.out.ok /\ r.out.val.saved THEN now + 1 ELSE now
                   /\ result' = Res("snapshot", auto, r.out)
             /\ UNCHANGED <<tree, ignore, procs, config_dir, beside>>
        ELSE /\ result' = Res("snapshot", auto, not_found(made, auto))
             /\ UNCHANGED <<tree, ignore, objects, snapshots, index, now, repo, shelved, procs, config_dir, beside>>

\* the user writes the config.toml of a layer
WriteConfig(layer, file) ==
    /\ config_dir[layer] # {file}
    /\ config_dir' = [config_dir EXCEPT ![layer] = {file}]
    /\ result' = Quiet
    /\ UNCHANGED <<tree, ignore, objects, snapshots, index, now, repo, shelved, procs, beside>>

\* the user removes the config.toml of a layer
RemoveConfig(layer) ==
    /\ config_dir[layer] # {}
    /\ config_dir' = [config_dir EXCEPT ![layer] = {}]
    /\ result' = Quiet
    /\ UNCHANGED <<tree, ignore, objects, snapshots, index, now, repo, shelved, procs, beside>>

\* a command resolves its configuration: ConfigResolver::load, then resolve
Resolve ==
    /\ result' = Res("resolve", <<>>, Ok(resolve(load_layers(config_dir))))
    /\ UNCHANGED <<tree, ignore, objects, snapshots, index, now, repo, shelved, procs, config_dir, beside>>

\* diff of two snapshots
CmdDiff(snapshot_id, snapshot_id2, name_only) ==
    /\ \E out \in cmd_diff(objects, snapshots, snapshot_id, snapshot_id2, name_only) :
          result' = Res("diff", [from |-> snapshot_id, to |-> snapshot_id2,
                                 name_only |-> name_only], out)
    /\ UNCHANGED <<tree, ignore, objects, snapshots, index, now, repo, shelved, procs, config_dir, beside>>

\* mote delete
CmdDelete(snapshot_id, force, answer) ==
    /\ \E r \in cmd_delete(snapshots, snapshot_id, force, answer) :
          /\ snapshots' = r.snapshots
          /\ result' = Res("delete", snapshot_id, r.out)
    /\ UNCHANGED <<tree, ignore, objects, index, now, repo, shelved, procs, config_dir, beside>>

\* SnapshotStore::cleanup called with the given limits
Cleanup(max_snapshots, max_age_days) ==
    /\ \E r \in cleanup(snapshots, max_snapshots, max_age_days, now) :
          /\ snapshots' = r.dir
          /\ result' = Res("cleanup", [dir |-> snapshots, max_snapshots |-> max_snapshots,
                                       max_age_days |-> max_age_days], Ok(r.removed))
    /\ UNCHANGED <<tree, ignore, objects, index, now, repo, shelved, procs, config_dir, beside>>

\* restore; writable tells whether the snapshots directory accepts a new file
CmdRestoreOn(snapshot_id, file, force, dry_run, writable) ==
    /\ \E r \in {cmd_restore(IF file = {} THEN tree ELSE tree @@ beside,
                              ignore, objects, index, snapshots, o, now,
                              snapshot_id, file, force, dry_run, writable) :
                      o \in ListingOrders(snapshots)} :
          /\ Cardinality(DOMAIN r.snapshots) <= MaxSnaps
          /\ r.saved => now < MaxTime
          /\ tree' = [p \in {q \in DOMAIN r.tree : ~is_absolute(q)} |-> r.tree[p]]
          /\ beside' = IF file = {} THEN beside
                       ELSE [p \in {q \in DOMAIN r.tree : is_absolute(q)} |-> r.tree[p]]
          /\ objects' = r.objects
          /\ index' = r.index
          /\ snapshots' = r.snapshots
          /\ now' = IF r.saved THEN now + 1 ELSE now
          /\ result' = Res("restore", [id |-> snapshot_id, file |-> file,
                                      force |-> force, dry_run |-> dry_run], r.out)
    /\ UNCHANGED <<ignore, repo, shelved, procs, config_dir>>

CmdRestore(snapshot_id, file, force, dry_run) ==
    CmdRestoreOn(snapshot_id, file, force, dry_run, TRUE)

\* garbage collection
CmdGc_serialized(dry_run) ==
    /\ \A i \in DOMAIN procs : procs[i].pc \in {"done", "failed"}
    /\ \E r \in {cmd_gc(objects, snapshots, o, w, dry_run) :
                      o \in ListingOrders(snapshots), w \in WalkOrders(objects)} :
          /\ objects' = r.objects
          /\ result' = Res("gc", dry_run, r.out)
    /\ UNCHANGED <<tree, ignore, snapshots, index, now, repo, shelved, procs, config_dir, beside>>
CmdGc(dry_run) ==
    /\ \E r \in {cmd_gc(objects, snapshots, o, w, dry_run) :
                      o \in ListingOrders(snapshots), w \in WalkOrders(objects)} :
          /\ objects' = r.objects
          /\ result' = Res("gc", dry_run, r.out)
    /\ UNCHANGED <<tree, ignore, snapshots, index, now, repo, shelved, procs, config_dir, beside>>

----------------------------------------------------------------------------
(* snapshot-create as a process beside others: cmd_snapshot, one step per
   file-system operation. std::fs::write creates or truncates the file, then
   writes the bytes; nothing in the core takes a lock. The configuration has
   auto_cleanup off and the run is not an auto run. *)

Procs == {1, 2}

\* the positions of a process that has returned
Returned == {"done", "failed"}

\* process i has returned
Ended(i) == i \in DOMAIN procs /\ procs[i].pc \in Returned

\* process i is between its first and its last step
InFlight(i) == i \in DOMAIN procs /\ procs[i].pc \notin Returned

\* the local variables of cmd_snapshot: index entries, the walk still to
\* do, the files collected, the snapshot made, and what it returns
Local(pc, entries, walk, files, snap, out) ==
    [pc |-> pc, entries |-> entries, walk |-> walk, files |-> files,
     snap |-> snap, out |-> out]

NoSnapshot == NewSnapshot(<<>>, "", "manual", 0)

\* process i goes on to pc with the head of its walk recorded
Collected(i, pc) ==
    LET path == Head(procs[i].walk)
        hash == compute_hash(tree[path].content)
        size == Len(tree[path].content)
    IN  [procs EXCEPT ![i].pc = pc,
                      ![i].walk = Tail(@),
                      ![i].files = Append(@, FileEntry(path, hash, size)),
                      ![i].entries = insert(@, [path |-> path, hash |-> hash,
                                                size |-> size,
                                                mtime |-> tree[path].mtime])]

\* cmd_snapshot starts: Index::load, whose error it returns, then the walk
Begin(i) ==
    /\ i \notin DOMAIN procs
    /\ LET loaded == load(index)
           local == IF loaded.ok
                    THEN Local("scan", loaded.val, walk_files(tree, ignore), <<>>,
                               NoSnapshot, Ok(<<>>))
                    ELSE Local("failed", NoEntries, <<>>, <<>>, NoSnapshot, loaded)
       IN  procs' = [j \in DOMAIN procs \cup {i} |-> IF j = i THEN local ELSE procs[j]]
    /\ result' = Quiet
    /\ UNCHANGED <<tree, ignore, objects, snapshots, index, now, repo, shelved, config_dir, beside>>

\* collect_files, one walked entry: an index hit is taken as it is; else
\* the file is read and ObjectStore::store tests object_path.exists()
ScanEntry(i) ==
    /\ InFlight(i)
    /\ procs[i].pc = "scan"
    /\ procs[i].walk # <<>>
    /\ LET path == Head(procs[i].walk)
           hit == is_unchanged(procs[i].entries, path, tree[path].mtime,
                               Len(tree[path].content))
           cached == CHOOSE e \in hit : TRUE
       IN  procs' =
               IF hit # {}
               THEN [procs EXCEPT ![i].walk = Tail(@),
                                  ![i].files = Append(@, FileEntry(path, cached.hash,
                                                                   cached.size))]
               ELSE IF object_path(compute_hash(tree[path].content)) \in DOMAIN objects
               THEN Collected(i, "scan")
               ELSE [procs EXCEPT ![i].pc = "create"]
    /\ result' = Quiet
    /\ UNCHANGED <<tree, ignore, objects, snapshots, index, now, repo, shelved, config_dir, beside>>

\* ObjectStore::store, fs::write: the object file is created, or truncated
\* if another process has created it since the test
CreateObject(i) ==
    /\ InFlight(i)
    /\ procs[i].pc = "create"
    /\ LET path == object_path(compute_hash(tree[Head(procs[i].walk)].content))
       IN  objects' = [q \in DOMAIN objects \cup {path} |->
                         IF q = path THEN Truncated ELSE objects[q]]
    /\ procs' = [procs EXCEPT ![i].pc = "fill"]
    /\ result' = Quiet
    /\ UNCHANGED <<tree, ignore, snapshots, index, now, repo, shelved, config_dir, beside>>

\* ObjectStore::store, fs::write: the compressed bytes are written; a file
\* that was unlinked meanwhile takes them with it
FillObject_lost(i) ==
    /\ InFlight(i)
    /\ procs[i].pc = "fill"
    /\ procs' = Collected(i, "scan")
    /\ result' = Quiet
    /\ UNCHANGED <<tree, ignore, objects, snapshots, index, now, repo, shelved, config_dir, beside>>
FillObject(i) ==
    /\ InFlight(i)
    /\ procs[i].pc = "fill"
    /\ LET content == tree[Head(procs[i].walk)].content
           path == object_path(compute_hash(content))
       IN  objects' = IF path \in DOMAIN objects
                      THEN [objects EXCEPT ![path] = encode_all(content)]
                      ELSE objects
    /\ procs' = Collected(i, "scan")
    /\ result' = Quiet
    /\ UNCHANGED <<tree, ignore, snapshots, index, now, repo, shelved, config_dir, beside>>

\* Index::save, fs::write: the index file is created or truncated
TruncateIndex(i) ==
    /\ InFlight(i)
    /\ procs[i].pc = "scan"
    /\ procs[i].walk = <<>>
    /\ index' = PartialIndex
    /\ procs' = [procs EXCEPT ![i].pc = "index"]
    /\ result' = Quiet
    /\ UNCHANGED <<tree, ignore, objects, snapshots, now, repo, shelved, config_dir, beside>>

\* Index::save, fs::write: the entries are written; bincode::deserialize
\* reads its value from the front of the file, so the last writer's entries
\* are what the file decodes to. cmd_snapshot returns here if no file was
\* collected.
WriteIndex(i) ==
    /\ InFlight(i)
    /\ procs[i].pc = "index"
    /\ index' = save_index(procs[i].entries)
    /\ procs' = IF is_empty(procs[i].files)
                THEN [procs EXCEPT ![i].pc = "done",
                                   ![i].out = Ok([files |-> <<>>, saved |-> FALSE,
                                                  removed |-> 0])]
                ELSE [procs EXCEPT ![i].pc = "new"]
    /\ result' = Quiet
    /\ UNCHANGED <<tree, ignore, objects, snapshots, now, repo, shelved, config_dir, beside>>

\* Snapshot::new: Utc::now() is read, and time passes
ReadClock(i) ==
    /\ InFlight(i)
    /\ procs[i].pc = "new"
    /\ now < MaxTime
    /\ procs' = [procs EXCEPT ![i].pc = "save",
                              ![i].snap = NewSnapshot(procs[i].files, "", "manual", now)]
    /\ now' = now + 1
    /\ result' = Quiet
    /\ UNCHANGED <<tree, ignore, objects, snapshots, index, repo, shelved, config_dir, beside>>

\* SnapshotStore::save, fs::write: the manifest file is created
CreateManifest(i) ==
    /\ InFlight(i)
    /\ procs[i].pc = "save"
    /\ LET path == FileName(procs[i].snap)
       IN  snapshots' = [f \in DOMAIN snapshots \cup {path} |->
                           IF f = path THEN [json |-> FALSE, snap |-> procs[i].snap]
                           ELSE snapshots[f]]
    /\ procs' = [procs EXCEPT ![i].pc = "manifest"]
    /\ result' = Quiet
    /\ UNCHANGED <<tree, ignore, objects, index, now, repo, shelved, config_dir, beside>>

\* SnapshotStore::save, fs::write: the JSON is written, and cmd_snapshot
\* returns
WriteManifest(i) ==
    /\ InFlight(i)
    /\ procs[i].pc = "manifest"
    /\ snapshots' = save(snapshots, procs[i].snap)
    /\ procs' = [procs EXCEPT ![i].pc = "done",
                              ![i].out = Ok([files |-> procs[i].files, saved |-> TRUE,
                                             removed |-> 0])]
    /\ result' = Quiet
    /\ UNCHANGED <<tree, ignore, objects, index, now, repo, shelved, config_dir, beside>>

TwoPaths == {<<"a">>, <<"d", "b">>}
TwoContents == {ContentOf(0), ContentOf(1)}

\* The object store under direct calls.
NextStore ==
    \/ \E p \in TwoPaths, c \in Content : WriteFile(p, c, FALSE)
    \/ \E B \in Content : Store(B)
    \/ \E p \in TwoPaths : StoreFile(p)
    \/ \E h \in Hashes : Retrieve(h)

SpecStore == Init /\ [][NextStore]_vars

\* The object store with interrupted writes and damaged files.
NextFault ==
    \/ \E p \in TwoPaths, c \in TwoContents : WriteFile(p, c, FALSE)
    \/ \E B \in Content : Store(B)
    \/ \E p \in TwoPaths : StoreFile(p)
    \/ \E h \in Hashes : Retrieve(h)
    \/ \E B \in Content : StoreCrash(B)
    \/ \E q \in DOMAIN objects, B \in TwoContents : Corrupt(q, B)

SpecFault == Init /\ [][NextFault]_vars

\* Snapshots, retention and garbage collection.
NextGc ==
    \/ \E p \in TwoPaths, c \in TwoContents : WriteFile(p, c, FALSE)
    \/ \E B \in {ContentOf(1), ContentOf(2)} : Store(B)
    \/ \E config \in {DefaultConfig, KeepOne} : CmdSnapshot(FALSE, config)
    \/ \E dry_run \in BOOLEAN : CmdGc(dry_run)

SpecGc == Init /\ [][NextGc]_vars

\* the place of an object that no file of the runs below has, and a name
\* beside it that is no hash
SparePath == object_path(compute_hash(ContentOf(2)))
OddPath == <<SparePath[1], <<"t">>>>

\* Garbage collection over a store that holds, beside its objects, a file
\* with another name and a directory.
NextSweep ==
    \/ \E c \in TwoContents : WriteFile(<<"a">>, c, FALSE)
    \/ CmdSnapshot(FALSE, KeepOne)
    \/ Stray(OddPath)
    \/ Mkdir(SparePath)
    \/ CmdGc(FALSE)

SpecSweep == Init /\ [][NextSweep]_vars

\* Content diffs of snapshots whose objects are partly gone.
NextMissing ==
    \/ \E c \in TwoContents : WriteFile(<<"a">>, c, FALSE)
    \/ WriteFile(<<"d", "b">>, ContentOf(1), FALSE)
    \/ CmdSnapshot(FALSE, KeepAll)
    \/ \E q \in DOMAIN objects : RemoveObject(q)
    \/ \E f, g \in DOMAIN snapshots : CmdDiff(snapshots[f].snap.id, snapshots[g].snap.id, FALSE)

SpecMissing == Init /\ [][NextMissing]_vars

\* The scanner over a changing tree and changing ignore rules.
NextScan ==
    \/ \E p \in FilePaths : WriteFile(p, <<>>, FALSE)
    \/ \E pats \in SUBSET Patterns : EditIgnore(pats)
    \/ CmdSnapshot(FALSE, KeepAll)
    \/ \E f \in DOMAIN snapshots : CmdRestore(snapshots[f].snap.id, {}, FALSE, FALSE)

Spec == Init /\ [][NextScan]_vars

\* The scanner and its index over a file that is rewritten and deleted.
NextIndex ==
    \/ \E c \in Content, keep \in BOOLEAN : WriteFile(<<"a">>, c, keep)
    \/ WriteFile(<<"d", "b">>, <<>>, FALSE)
    \/ DeleteFile(<<"a">>)
    \/ Tick
    \/ \E auto \in BOOLEAN : CmdSnapshot(auto, KeepAll)
    \/ \E f \in DOMAIN snapshots : CmdRestore(snapshots[f].snap.id, {}, FALSE, FALSE)

SpecIndex == Init /\ [][NextIndex]_vars

\* The snapshot store.
NextSnap ==
    \/ \E c \in TwoContents : WriteFile(<<"a">>, c, FALSE)
    \/ \E auto \in BOOLEAN : CmdSnapshot(auto, KeepAll)
    \/ \E f \in DOMAIN snapshots : DamageManifest(f)
    \/ \E f \in DOMAIN snapshots : CopyManifest(f)
    \/ List
    \/ Latest
    \/ \E partial \in Partials : FindById(partial)

SpecSnap == Init /\ [][NextSnap]_vars

\* Retention: snapshots pile up and age, and cleanup prunes them.
NextRetention ==
    \/ \E c \in TwoContents : WriteFile(<<"a">>, c, FALSE)
    \/ Tick
    \/ CmdSnapshot(FALSE, KeepAll)
    \/ \E f \in DOMAIN snapshots : DamageManifest(f)
    \/ \E m \in 0..MaxSnaps, a \in 0..MaxTime : Cleanup(m, a)

SpecRetention == Init /\ [][NextRetention]_vars

\* Deletion and retention over a snapshots directory that holds, beside the
\* manifests, a copy of one of them.
NextPrune ==
    \/ \E c \in TwoContents : WriteFile(<<"a">>, c, FALSE)
    \/ CmdSnapshot(FALSE, KeepAll)
    \/ \E f \in DOMAIN snapshots : CopyManifest(f)
    \/ \E f \in DOMAIN snapshots : CmdDelete(snapshots[f].snap.id, TRUE, FALSE)
    \/ Cleanup(1, MaxTime)

SpecPrune == Init /\ [][NextPrune]_vars

\* Full restore without force into a tree that was edited since the
\* snapshot, with a snapshots directory that may refuse the backup.
NextRestore ==
    \/ \E c \in TwoContents : WriteFile(<<"a">>, c, FALSE)
    \/ WriteFile(<<"d", "b">>, <<>>, FALSE)
    \/ DeleteFile(<<"a">>)
    \/ \E pats \in SUBSET {pat \in Patterns : ~pat.dir_only} : EditIgnore(pats)
    \/ CmdSnapshot(FALSE, KeepAll)
    \/ \E f \in DOMAIN snapshots, writable \in BOOLEAN :
          CmdRestoreOn(snapshots[f].snap.id, {}, FALSE, FALSE, writable)

SpecRestore == Init /\ [][NextRestore]_vars

\* Forced full restores over a tree with a file that cannot be opened and a
\* store with a damaged object.
NextDenied ==
    \/ \E c \in TwoContents : WriteFile(<<"a">>, c, FALSE)
    \/ WriteFile(<<"d", "b">>, <<>>, FALSE)
    \/ DeleteFile(<<"d", "b">>)
    \/ Chmod(<<"a">>)
    \/ CmdSnapshot(FALSE, KeepAll)
    \/ \E q \in DOMAIN objects : Corrupt(q, <<>>)
    \/ \E f \in DOMAIN snapshots : CmdRestore(snapshots[f].snap.id, {}, TRUE, FALSE)

SpecDenied == Init /\ [][NextDenied]_vars

\* Single-file restore of every path, and restores run with dry_run.
NextRestoreFile ==
    \/ \E c \in TwoContents : WriteFile(<<"a">>, c, FALSE)
    \/ WriteFile(<<"d", "b">>, <<>>, FALSE)
    \/ DeleteFile(<<"a">>)
    \/ CmdSnapshot(FALSE, KeepAll)
    \/ \E f \in DOMAIN snapshots, p \in TwoPaths, dry_run \in BOOLEAN :
          CmdRestoreOn(snapshots[f].snap.id, {p}, FALSE, dry_run, TRUE)
    \/ \E f \in DOMAIN snapshots, force \in BOOLEAN :
          CmdRestoreOn(snapshots[f].snap.id, {}, force, TRUE, TRUE)

SpecRestoreFile == Init /\ [][NextRestoreFile]_vars

\* the file arguments of a single-file restore: a path from the root, a
\* path that leaves the root through "..", and absolute paths inside and
\* outside of the root
FileArguments ==
    {<<"a">>, <<"..", "x">>, project_root \o <<"a">>, <<"/", "x">>}

\* Single-file restores for every kind of file argument, with a file beside
\* the working tree.
NextOutside ==
    \/ \E c \in TwoContents : WriteFile(<<"a">>, c, FALSE)
    \/ WriteBeside(<<"/", "x">>, <<>>)
    \/ CmdSnapshot(FALSE, KeepAll)
    \/ \E f \in DOMAIN snapshots, p \in FileArguments, dry_run \in BOOLEAN :
          CmdRestoreOn(snapshots[f].snap.id, {p}, FALSE, dry_run, TRUE)

SpecOutside == Init /\ [][NextOutside]_vars

\* Snapshots taken by hand and by the auto trigger, over a tree that is
\* edited, emptied and left alone, with and without retention.
NextAuto ==
    \/ \E c \in TwoContents : WriteFile(<<"a">>, c, FALSE)
    \/ WriteFile(<<"d", "b">>, <<>>, FALSE)
    \/ DeleteFile(<<"a">>)
    \/ \E auto \in BOOLEAN, config \in {KeepAll, KeepOne} : CmdSnapshot(auto, config)
    \/ \E f \in DOMAIN snapshots : DamageManifest(f)

SpecAuto == Init /\ [][NextAuto]_vars

\* A project from before mote init: snapshot-create looks for the repository.
\* A user who keeps the repository in a directory of their own names it in
\* every command, and names no directory otherwise.
NextLocate ==
    \/ \E c \in TwoContents : WriteFile(<<"a">>, c, FALSE)
    \/ WriteFile(<<".git", "c">>, <<>>, FALSE)
    \/ \E strategy \in {"root", "vcs", "auto"} : CmdInit(strategy)
    \/ \E auto \in BOOLEAN :
          \/ repo # "custom" /\ CmdSnapshotAt({}, auto, KeepAll)
          \/ repo \in {NoRepo, "custom"} /\ CmdSnapshotAt({"custom"}, auto, KeepAll)

SpecLocate == InitBare /\ [][NextLocate]_vars

\* A project from before mote init in which storage roots come to exist side
\* by side: the commands look for the repository, with the global
\* --storage-dir or without, and mote init creates it.
NoneOrCustom == {{}, {"custom"}}

NextRoots ==
    \/ WriteFile(<<"a">>, <<>>, FALSE)
    \/ WriteFile(<<".git", "c">>, <<>>, FALSE)
    \/ WriteFile(<<".jj", "c">>, <<>>, FALSE)
    \/ \E strategy \in {"root", "vcs", "auto"}, storage_dir \in NoneOrCustom :
          CmdInitAt(strategy, storage_dir)
    \/ \E storage_dir \in NoneOrCustom : FindExisting(storage_dir)
    \/ CmdSnapshotAt({}, FALSE, KeepAll)

SpecRoots == InitBare /\ [][NextRoots]_vars

\* Configuration files of the three layers come and go, each setting at most
\* one setting, and commands resolve their configuration.
NextConfig ==
    \/ \E layer \in Layers, file \in ConfigFiles : WriteConfig(layer, file)
    \/ \E layer \in Layers : RemoveConfig(layer)
    \/ Resolve

SpecConfig == Init /\ [][NextConfig]_vars

\* Two snapshot-create processes run side by side on a tree that was edited
\* before they start; no GC, and no process is interrupted.
NextRace ==
    \/ procs = NoProcs /\ \E c \in TwoContents : WriteFile(<<"a">>, c, FALSE)
    \/ procs = NoProcs /\ WriteFile(<<"d", "b">>, <<>>, FALSE)
    \/ \E i \in Procs : Begin(i)
    \/ \E i \in Procs : ScanEntry(i)
    \/ \E i \in Procs : CreateObject(i)
    \/ \E i \in Procs : FillObject(i)
    \/ \E i \in Procs : TruncateIndex(i)
    \/ \E i \in Procs : WriteIndex(i)
    \/ \E i \in Procs : ReadClock(i)
    \/ \E i \in Procs : CreateManifest(i)
    \/ \E i \in Procs : WriteManifest(i)

SpecRace == Init /\ [][NextRace]_vars

\* One snapshot-create process runs while mote gc runs, on a repository that
\* may hold a snapshot from before.
NextGcRace ==
    \/ procs = NoProcs /\ \E c \in TwoContents : WriteFile(<<"a">>, c, FALSE)
    \/ procs = NoProcs /\ CmdSnapshot(FALSE, KeepAll)
    \/ Begin(1)
    \/ ScanEntry(1)
    \/ CreateObject(1)
    \/ FillObject(1)
    \/ TruncateIndex(1)
    \/ WriteIndex(1)
    \/ ReadClock(1)
    \/ CreateManifest(1)
    \/ WriteManifest(1)
    \/ CmdGc(FALSE)

SpecGcRace == Init /\ [][NextGcRace]_vars

\* Pairs of snapshots of a tree in which files are edited, added and deleted.
NextDiff ==
    \/ \E c \in TwoContents : WriteFile(<<"a">>, c, FALSE)
    \/ WriteFile(<<"d", "b">>, <<>>, FALSE)
    \/ DeleteFile(<<"a">>)
    \/ CmdSnapshot(FALSE, KeepAll)
    \/ \E f, g \in DOMAIN snapshots, name_only \in BOOLEAN :
          CmdDiff(snapshots[f].snap.id, snapshots[g].snap.id, name_only)

SpecDiff == Init /\ [][NextDiff]_vars

\* Snapshot-create over an index file that may be missing or unreadable.
NextIndexFile ==
    \/ \E c \in TwoContents : WriteFile(<<"a">>, c, FALSE)
    \/ WriteFile(<<"d", "b">>, <<>>, FALSE)
    \/ DeleteFile(<<"a">>)
    \/ \E auto \in BOOLEAN : CmdSnapshot(auto, KeepAll)
    \/ DamageIndex
    \/ RemoveIndex

SpecIndexFile == Init /\ [][NextIndexFile]_vars

\* Every reader of snapshots/ over a directory in which manifests get
\* damaged.
NextParse ==
    \/ \E c \in TwoContents : WriteFile(<<"a">>, c, FALSE)
    \/ CmdSnapshot(FALSE, KeepAll)
    \/ \E f \in DOMAIN snapshots : DamageManifest(f)
    \/ List
    \/ Latest
    \/ \E partial \in Partials : FindById(partial)
    \/ \E m \in 1..MaxSnaps : Cleanup(m, MaxTime)
    \/ \E dry_run \in BOOLEAN : CmdGc(dry_run)

SpecParse == Init /\ [][NextParse]_vars

\* Every command that works on a repository, over a tree that is edited.
NextFrame ==
    \/ \E c \in TwoContents : WriteFile(<<"a">>, c, FALSE)
    \/ DeleteFile(<<"a">>)
    \/ \E config \in {KeepAll, KeepOne} : CmdSnapshot(FALSE, config)
    \/ Cleanup(1, MaxTime)
    \/ \E f \in DOMAIN snapshots, force \in BOOLEAN :
          CmdDelete(snapshots[f].snap.id, force, FALSE)
    \/ \E f, g \in DOMAIN snapshots : CmdDiff(snapshots[f].snap.id, snapshots[g].snap.id, FALSE)
    \/ \E f \in DOMAIN snapshots : CmdRestore(snapshots[f].snap.id, {}, FALSE, FALSE)
    \/ CmdGc(FALSE)

SpecFrame == Init /\ [][NextFrame]_vars

----------------------------------------------------------------------------
(* Properties *)

\* what the commands keep on disk
disk == <<tree, objects, snapshots, index>>

\* what a snapshot-create leaves behind: the disk, and how it was run
created == <<disk, result.op, IF result.op = "snapshot" THEN <<result.arg>> ELSE <<>>>>

\* what a command leaves behind: the disk, and whether it succeeded
effect == <<disk, result.op, result.out.ok>>

ReturnedHash == IF result.op = "store" THEN result.out.val ELSE result.out.val[1]

Parsed == {snapshots[f].snap : f \in {g \in DOMAIN snapshots : IsJson(g) /\ snapshots[g].json}}

Referenced == UNION {{s.files[j].hash : j \in 1..Len(s.files)} : s \in Parsed}

\* C1: after store(B) or store_file of a file holding B, in any object
\* store built by such calls, retrieve of the returned hash succeeds and
\* returns exactly B.
C1_StoreThenRetrieve ==
    result.op \in {"store", "store_file"} =>
        retrieve(objects, ReturnedHash) = Ok(result.arg)

C1_Witness ==
    /\ result.op = "store"
    /\ Cardinality(DOMAIN objects) >= 2
    /\ retrieve(objects, ReturnedHash).ok

\* C2: a GC run deletes no object whose hash is named by a snapshot in
\* list(): every referenced hash retrieves after the run what it retrieved
\* before it.
C2_GcKeepsReferenced ==
    [][result'.op = "gc" =>
          \A h \in Referenced :
              retrieve(objects, h).ok => retrieve(objects', h) = retrieve(objects, h)]_vars

C2_Witness ==
    /\ result.op = "gc"
    /\ result.out.val.deleted # {}
    /\ \E s1 \in Parsed, s2 \in Parsed :
          /\ s1 # s2
          /\ \E i \in 1..Len(s1.files), j \in 1..Len(s2.files) :
                /\ s1.files[i].hash = s2.files[j].hash
                /\ retrieve(objects, s1.files[i].hash).ok

\* C3: after a GC run that is not a dry run returns successfully, every
\* object file under objects/ has a hash named by some listed snapshot.
C3_NoGarbageAfterGc ==
    (result.op = "gc" /\ result.arg = FALSE /\ result.out.ok) =>
        \A q \in DOMAIN objects : (q[1] \o q[2]) \in Referenced

C3_Witness ==
    /\ result.op = "gc"
    /\ result.arg = FALSE
    /\ Cardinality(result.out.val.deleted) >= 2
    /\ objects # NoObjects

ScanFiles(entries) == collect_files(tree, ignore, objects, entries).files

IndexFaithful ==
    \A p \in DOMAIN tree \cap DOMAIN load(index).val :
        (load(index).val[p].mtime = tree[p].mtime /\ load(index).val[p].size = Len(tree[p].content))
            => load(index).val[p].hash = compute_hash(tree[p].content)

Excluded(p) ==
    \/ is_ignored(ignore, p, FALSE)
    \/ \E k \in 1..(Len(p) - 1) : is_ignored(ignore, SubSeq(p, 1, k), TRUE)
    \/ p[1] \in {".mote", ".git", ".jj"}

\* C5: no manifest produced by the scanner contains a path that matches
\* the ignore rules at scan time, a path below an ignored directory, or a
\* path under the root-level .mote, .git or .jj, whatever the index holds.
C5_ScanOmitsIgnored ==
    (result.op \in {"snapshot", "restore"} /\ result.out.ok) =>
        /\ \A i \in 1..Len(result.out.val.files) : ~Excluded(result.out.val.files[i].path)
        /\ (result.op = "snapshot" /\ result.out.val.saved) =>
              \E s \in Parsed : s.trigger = "manual" /\ s.files = result.out.val.files
        /\ (result.op = "restore" /\ result.out.val.backup) =>
              \E s \in Parsed : s.trigger = "auto-backup" /\ s.files = result.out.val.files

C5_Witness ==
    /\ result.op = "restore"
    /\ result.out.ok
    /\ result.out.val.backup
    /\ is_ignored(ignore, <<"d">>, TRUE)
    /\ ~is_ignored(ignore, <<"a">>, FALSE)
    /\ <<"d", "b">> \in DOMAIN tree \cap DOMAIN load(index).val
    /\ <<".git", "c">> \in DOMAIN tree

\* C6: a store of B (also through store_file) returns the hash of B and
\* leaves exactly one object file for it, creating no other file; a call
\* that finds the file already there leaves objects/ as it was.
C6_StoreIdempotent ==
    [][result'.op \in {"store", "store_file"} =>
          LET h == IF result'.op = "store" THEN result'.out.val ELSE result'.out.val[1]
          IN  /\ h = compute_hash(result'.arg)
              /\ DOMAIN objects' = DOMAIN objects \cup {object_path(h)}
              /\ object_path(h) \in DOMAIN objects => objects' = objects]_vars

C6_Witness ==
    /\ result.op = "store_file"
    /\ \E p \in DOMAIN tree, q \in DOMAIN tree :
          p # q /\ tree[p].content = result.arg /\ tree[q].content = result.arg
    /\ Cardinality({q \in DOMAIN objects : objects[q] = encode_all(result.arg)}) = 1

\* C7: without a crash, every object file objects/<h[0:2]>/<h[2:]>
\* decompresses to bytes whose digest is exactly h.
C7_ObjectsMatchKey ==
    \A q \in DOMAIN objects :
        /\ Len(q[1]) = PrefixLen
        /\ objects[q].complete
        /\ compute_hash(objects[q].body) = q[1] \o q[2]

C7_Witness ==
    /\ result.op = "gc"
    /\ result.out.val.deleted # {}
    /\ Cardinality(DOMAIN objects) >= 2

\* C8 as claimed: retrieve(h) fails with ObjectNotFound when no object file
\* exists for h, fails with HashMismatch when the decoded content hashes to
\* another value, and otherwise returns the content.
C8_RetrieveThreeCases ==
    result.op = "retrieve" =>
        LET h == result.arg
            q == object_path(h)
        IN  IF q \notin DOMAIN objects THEN result.out = Err("ObjectNotFound")
            ELSE IF objects[q].complete /\ compute_hash(objects[q].body) # h
                 THEN result.out = Err("HashMismatch")
                 ELSE result.out.ok /\ compute_hash(result.out.val) = h

\* C8 as amended: retrieve(h) fails with ObjectNotFound when no object file
\* exists for h, with an I/O error when the file does not decode, with
\* HashMismatch when the decoded content hashes to another value, and
\* otherwise returns the content; it never returns bytes whose hash is not h.
C8_RetrieveFourCases ==
    result.op = "retrieve" =>
        LET h == result.arg
            q == object_path(h)
        IN  /\ IF q \notin DOMAIN objects THEN result.out = Err("ObjectNotFound")
               ELSE IF ~objects[q].complete THEN result.out = Err("Io")
               ELSE IF compute_hash(objects[q].body) # h
                    THEN result.out = Err("HashMismatch")
                    ELSE result.out = Ok(objects[q].body)
            /\ result.out.ok => compute_hash(result.out.val) = h

C8_Witness ==
    /\ result.op = "retrieve"
    /\ result.out.err = "HashMismatch"
    /\ \E q \in DOMAIN objects : ~objects[q].complete

\* C9: list() returns every parseable manifest once, sorted by timestamp
\* descending, strictly so for snapshots of distinct seconds; latest()
\* returns the head of list(), and nothing when there is no snapshot.
C9_ListNewestFirst ==
    /\ result.op = "list" =>
          LET l == result.out.val
          IN  /\ {l[i] : i \in 1..Len(l)} = Parsed
              /\ Len(l) = Cardinality(Parsed)
              /\ \A i \in 1..Len(l), j \in 1..Len(l) :
                    i < j => /\ l[i].timestamp >= l[j].timestamp
                             /\ (FormatTs(l[i].timestamp) # FormatTs(l[j].timestamp)
                                   => l[i].timestamp > l[j].timestamp)
    /\ result.op = "latest" =>
          /\ Parsed = {} => result.out.val = {}
          /\ Parsed # {} =>
                \E s \in Parsed :
                    /\ result.out.val = {s}
                    /\ \A t \in Parsed : t.timestamp <= s.timestamp

C9_Witness ==
    /\ result.op = "list"
    /\ Len(result.out.val) >= 2
    /\ \E f \in DOMAIN snapshots : ~IsJson(f)
    /\ FormatTs(result.out.val[1].timestamp) # FormatTs(result.out.val[2].timestamp)

\* C10: find_by_id(p), p not empty, returns the snapshot when exactly one
\* listed snapshot has an id beginning with p, fails with SnapshotNotFound
\* when none has, and with AmbiguousSnapshotId when more than one has.
C10_FindByIdCases ==
    result.op = "find_by_id" =>
        LET m == {s \in Parsed : starts_with(s.id, result.arg)}
        IN  /\ result.arg # <<>>
            /\ m = {} => result.out = Err("SnapshotNotFound")
            /\ Cardinality(m) = 1 => result.out = Ok(CHOOSE s \in m : TRUE)
            /\ Cardinality(m) > 1 => result.out = Err("AmbiguousSnapshotId")

C10_Witness ==
    /\ result.op = "find_by_id"
    /\ result.out.err = "AmbiguousSnapshotId"
    /\ Len(result.arg) = 2

BackedRestore(r) ==
    r.op = "restore" /\ r.arg.file = {} /\ ~r.arg.force /\ ~r.arg.dry_run

\* the manifests that the step added hold an auto-backup of the working tree
\* as it was before the step, stamped before the step
BackupTaken ==
    \E f \in DOMAIN snapshots' \ DOMAIN snapshots :
        /\ snapshots'[f].json
        /\ snapshots'[f].snap.trigger = "auto-backup"
        /\ snapshots'[f].snap.timestamp = now
        /\ snapshots'[f].snap.files = ScanFiles(load(index).val)

\* C12 as claimed: a full restore without force and not dry-run saves an
\* auto-backup snapshot of the working tree as it was before its first write,
\* and writes no working-tree file when saving the backup fails.
C12_BackupBeforeWrite ==
    [][BackedRestore(result') =>
          /\ result'.out.ok => BackupTaken
          /\ ~result'.out.ok => tree' = tree]_disk

\* C12 as amended: when the scan of the working tree finds at least one
\* file, a full restore without force and not dry-run saves an auto-backup
\* snapshot of the working tree as it was before its first write, and writes
\* no working-tree file when saving the backup fails; when the scan finds no
\* file, no backup is saved.
C12_BackupOfNonEmptyScanBeforeWrite ==
    [][BackedRestore(result') =>
          /\ (result'.out.ok /\ ScanFiles(load(index).val) # <<>>) => BackupTaken
          /\ (result'.out.ok /\ ScanFiles(load(index).val) = <<>>) => snapshots' = snapshots
          /\ ~result'.out.ok => tree' = tree]_disk

\* a restore saved its backup and then wrote a file
C12_Witness ==
    /\ BackedRestore(result)
    /\ result.out.ok
    /\ result.out.val.backup
    /\ result.out.val.restored > 0

\* the snapshot that the id names, and the paths it records
Target(id) == CHOOSE snap \in Parsed : snap.id = id
Recorded(id) == {Target(id).files[i].path : i \in 1..Len(Target(id).files)}

\* every file that the snapshot records is in the working tree tr with the
\* bytes that the object store objs holds for it
RestoredTo(tr, objs, snap) ==
    \A i \in 1..Len(snap.files) :
        /\ snap.files[i].path \in DOMAIN tr
        /\ retrieve(objs, snap.files[i].hash) = Ok(tr[snap.files[i].path].content)

BackedUp(p) ==
    \E f \in DOMAIN snapshots' \ DOMAIN snapshots :
        /\ snapshots'[f].json
        /\ snapshots'[f].snap.trigger = "auto-backup"
        /\ \E i \in 1..Len(snapshots'[f].snap.files) :
              /\ snapshots'[f].snap.files[i].path = p
              /\ retrieve(objects', snapshots'[f].snap.files[i].hash) = Ok(tree[p].content)

\* the files whose bytes the step replaced
Overwritten == {p \in DOMAIN tree \cap DOMAIN tree' : tree'[p].content # tree[p].content}

FileRestore(r) == r.op = "restore" /\ r.arg.file # {} /\ ~r.arg.dry_run

\* C15: a single-file restore of p from S that is not a dry run succeeds and
\* leaves p with exactly the content that S records when S contains p,
\* removes p when S does not contain it and the file exists, changes nothing
\* when S does not contain p and no such file exists, and in every case
\* touches no other file of the working tree.
C15_SingleFileRestoreCases ==
    [][FileRestore(result') =>
          \A p \in result'.arg.file :
              /\ result'.out.ok
              /\ p \in Recorded(result'.arg.id) =>
                    /\ p \in DOMAIN tree'
                    /\ \E i \in 1..Len(Target(result'.arg.id).files) :
                          /\ Target(result'.arg.id).files[i].path = p
                          /\ retrieve(objects, Target(result'.arg.id).files[i].hash)
                                = Ok(tree'[p].content)
              /\ p \notin Recorded(result'.arg.id) => p \notin DOMAIN tree'
              /\ (p \notin Recorded(result'.arg.id) /\ p \notin DOMAIN tree) => tree' = tree
              /\ DOMAIN tree' \ {p} = DOMAIN tree \ {p}
              /\ \A q \in DOMAIN tree \ {p} : tree'[q] = tree[q]]_effect

\* a single-file restore removed a file that its snapshot does not record,
\* beside a file that the snapshot records with other bytes
C15_Witness ==
    /\ FileRestore(result)
    /\ result.out.ok
    /\ \E p \in result.arg.file :
          /\ p \notin Recorded(result.arg.id)
          /\ p \notin DOMAIN tree
          /\ p \in DOMAIN load(index).val
    /\ \E i \in 1..Len(Target(result.arg.id).files) :
          /\ Target(result.arg.id).files[i].path \in DOMAIN tree
          /\ retrieve(objects, Target(result.arg.id).files[i].hash)
                # Ok(tree[Target(result.arg.id).files[i].path].content)

\* C16: a restore run with dry_run, of the whole snapshot or of one file,
\* writes nothing: the working tree, objects/, snapshots/ and the contents of
\* the index are as before, and no backup snapshot is created.
C16_DryRunWritesNothing ==
    [][(result'.op = "restore" /\ result'.arg.dry_run) =>
          /\ tree' = tree
          /\ objects' = objects
          /\ snapshots' = snapshots
          /\ load(index').val = load(index).val]_disk

\* a dry run of a full restore reported files to restore, and the working
\* tree still differs from the snapshot
C16_Witness ==
    /\ result.op = "restore"
    /\ result.arg.dry_run
    /\ result.arg.file = {}
    /\ result.out.ok
    /\ result.out.val.restored > 0
    /\ ~result.out.val.backup
    /\ ~RestoredTo(tree, objects, Target(result.arg.id))

\* the path-to-hash mapping of a list of file entries
Mapping(files) == {<<files[i].path, files[i].hash>> : i \in 1..Len(files)}

\* the listed snapshots that no listed snapshot is newer than
Newest == {snap \in Parsed : \A other \in Parsed : other.timestamp <= snap.timestamp}

\* an auto snapshot-create whose scan found files
AutoSnapshot(r) == r.op = "snapshot" /\ r.arg /\ r.out.ok /\ r.out.val.files # <<>>

\* C17: an auto snapshot-create whose scan is not empty saves a new snapshot
\* exactly when no snapshot is listed or the scanned path-to-hash mapping
\* differs from that of the latest snapshot, and an auto snapshot-create that
\* follows another on an unchanged tree leaves the number of snapshots as it
\* was.
C17_AutoSavesOnlyChanges ==
    [][AutoSnapshot(result') =>
          /\ result'.out.val.saved <=>
                \/ Parsed = {}
                \/ \E snap \in Newest : Mapping(snap.files) # Mapping(result'.out.val.files)
          /\ result'.out.val.saved =>
                \E f \in DOMAIN snapshots' \ DOMAIN snapshots :
                    snapshots'[f].snap.files = result'.out.val.files
          /\ ~result'.out.val.saved => snapshots' = snapshots
          /\ AutoSnapshot(result) =>
                Cardinality(DOMAIN snapshots') = Cardinality(DOMAIN snapshots)]_created

\* an auto snapshot-create found the tree as the latest snapshot records it
\* and saved nothing, after an earlier one had saved that snapshot
C17_Witness ==
    /\ AutoSnapshot(result)
    /\ ~result.out.val.saved
    /\ Cardinality(Parsed) = 2
    /\ \E snap \in Newest : Mapping(snap.files) = Mapping(result.out.val.files)
    /\ \E snap \in Parsed \ Newest : Mapping(snap.files) # Mapping(result.out.val.files)

\* C18: a snapshot-create whose scan emits no file entries returns success
\* and saves no manifest: the set of snapshots and the set of objects are as
\* before.
C18_EmptyScanSavesNothing ==
    [][(result'.op = "snapshot" /\ ScanFiles(load(index).val) = <<>>) =>
          /\ result'.out.ok
          /\ ~result'.out.val.saved
          /\ snapshots' = snapshots
          /\ objects' = objects]_created

\* a snapshot-create found no file in a repository that holds snapshots
C18_Witness ==
    /\ result.op = "snapshot"
    /\ result.out.ok
    /\ result.out.val.files = <<>>
    /\ DOMAIN tree = {}
    /\ DOMAIN snapshots # {}
    /\ DOMAIN objects # {}

\* C19: a snapshot-create that finds no repository and is given no storage
\* directory fails with NotInitialized and a non-zero exit status when run
\* by hand, returns success when run with auto, and in both cases creates no
\* repository, object, manifest or index.
C19_NoRepositoryNoSnapshot ==
    [][(result'.op = "snapshot" /\ repo = NoRepo /\ repo' # "custom") =>
          /\ ~result'.arg => result'.out = Err("NotInitialized") /\ exit_code(result'.out) # 0
          /\ result'.arg => result'.out.ok /\ exit_code(result'.out) = 0
          /\ repo' = NoRepo
          /\ objects' = NoObjects
          /\ snapshots' = NoFiles
          /\ index' = NoIndex]_<<created, repo, shelved, procs, config_dir, beside>>

\* a snapshot-create run by hand found no repository beside files to record
C19_Witness ==
    /\ result.op = "snapshot"
    /\ ~result.arg
    /\ result.out = Err("NotInitialized")
    /\ repo = NoRepo
    /\ <<"a">> \in DOMAIN tree

\* the hash that the snapshot named id records for path p, if any
HashIn(id, p) == {Target(id).files[i].hash :
                     i \in {j \in 1..Len(Target(id).files) : Target(id).files[j].path = p}}

\* the record that a name-only diff owes to path p: M when both snapshots
\* hold p with different hashes, A when only the second holds it, D when
\* only the first does, and none otherwise
Owed(from, to, p) ==
    IF HashIn(from, p) # {} /\ HashIn(to, p) # {}
    THEN IF HashIn(from, p) # HashIn(to, p) THEN {<<"M", p>>} ELSE {}
    ELSE IF HashIn(to, p) # {} THEN {<<"A", p>>}
    ELSE IF HashIn(from, p) # {} THEN {<<"D", p>>}
    ELSE {}

\* C20: a name-only diff of snapshots A and B emits exactly one record for
\* each path that differs between them and none for any other path: M for a
\* path in both with differing hashes, A for a path only in B, D for a path
\* only in A.
C20_NameOnlyDiffRecords ==
    (result.op = "diff" /\ result.arg.name_only) =>
        /\ result.out.ok
        /\ LET records == SubSeq(result.out.val, 3, Len(result.out.val))
           IN  /\ \A i, j \in 1..Len(records) : records[i] = records[j] => i = j
               /\ {records[i] : i \in 1..Len(records)}
                     = UNION {Owed(result.arg.from, result.arg.to, p) : p \in FilePaths}

\* a name-only diff reported a modified and a deleted path
C20_Witness ==
    /\ result.op = "diff"
    /\ result.arg.name_only
    /\ result.out.ok
    /\ \E i, j \in 3..Len(result.out.val) :
          result.out.val[i][1] = "M" /\ result.out.val[j][1] = "D"

\* C25: a snapshot-create that finds no index file scans as with an empty
\* index and succeeds; one that finds an index file which does not decode
\* fails with an I/O error and leaves objects/, snapshots/ and the index
\* file as they were.
C25_UnreadableIndexRefused ==
    [][result'.op = "snapshot" =>
          /\ ~index.present =>
                /\ result'.out.ok
                /\ result'.out.val.files = ScanFiles(NoEntries)
                /\ index'.present /\ index'.valid
          /\ (index.present /\ ~index.valid) =>
                /\ result'.out = Err("Io")
                /\ objects' = objects
                /\ snapshots' = snapshots
                /\ index' = index]_<<created, result.out.ok>>

\* a snapshot-create was refused over an unreadable index, in a repository
\* that holds an earlier snapshot and a file that it does not record
C25_Witness ==
    /\ result.op = "snapshot"
    /\ result.out = Err("Io")
    /\ index = PartialIndex
    /\ snapshots # NoFiles
    /\ \E p \in DOMAIN tree : object_path(compute_hash(tree[p].content)) \notin DOMAIN objects

\* C23: when an interrupted store has left a partial object file at the
\* path of hash h, the next store(B) with compute_hash(B) = h overwrites
\* that file, and retrieve(h) then returns B.
C23_StoreOverwritesPartial ==
    [][(/\ result'.op = "store"
        /\ object_path(compute_hash(result'.arg)) \in DOMAIN objects
        /\ objects[object_path(compute_hash(result'.arg))] = Truncated) =>
          /\ objects'[object_path(compute_hash(result'.arg))] = encode_all(result'.arg)
          /\ retrieve(objects', compute_hash(result'.arg)) = Ok(result'.arg)]_<<objects, result.op>>

\* the manifests of snapshots/ that parse and match a partial id
Matching(partial) == {s \in Parsed : starts_with(s.id, partial)}

\* C24: with manifests in snapshots/ that do not parse, list() succeeds
\* and returns each manifest that parses exactly once; latest, find_by_id,
\* cleanup and garbage collection, which read the directory through list(),
\* succeed or fail as the manifests that parse decide, and garbage
\* collection deletes no object that one of them references.
C24_UnparsableManifestsSkipped ==
    /\ result.op = "list" =>
          /\ result.out.ok
          /\ {result.out.val[i] : i \in 1..Len(result.out.val)} = Parsed
          /\ Len(result.out.val) = Cardinality(Parsed)
    /\ result.op = "latest" =>
          /\ result.out.ok
          /\ result.out.val \subseteq Parsed
          /\ Parsed # {} => result.out.val # {}
    /\ result.op = "find_by_id" =>
          /\ Cardinality(Matching(result.arg)) = 1 =>
                result.out.ok /\ result.out.val \in Matching(result.arg)
          /\ Cardinality(Matching(result.arg)) = 0 =>
                result.out = Err("SnapshotNotFound")
          /\ Cardinality(Matching(result.arg)) > 1 =>
                result.out = Err("AmbiguousSnapshotId")
    /\ result.op = "cleanup" =>
          /\ result.out.ok
          /\ \A f \in DOMAIN snapshots : snapshots[f] = result.arg.dir[f]
    /\ result.op = "gc" =>
          /\ result.out.ok
          /\ \A h \in Referenced : object_path(h) \notin result.out.val.deleted

\* list() has returned a manifest from a directory that holds another one
\* which does not parse
C24_Witness ==
    /\ result.op = "list"
    /\ result.out.ok
    /\ Len(result.out.val) >= 1
    /\ \E f \in DOMAIN snapshots : IsJson(f) /\ ~snapshots[f].json

\* every object file of objs is in next, with the same bytes
Kept(objs, next) == \A q \in DOMAIN objs : q \in DOMAIN next /\ next[q] = objs[q]

\* C26: snapshot-create, retention cleanup, snapshot delete, diff and
\* restore leave every existing object file in place with the bytes it had;
\* garbage collection adds no object file and alters none that it keeps.
C26_ObjectsAppendOnlyOutsideGc ==
    [][/\ result'.op # "gc" => Kept(objects, objects')
       /\ result'.op = "gc" => Kept(objects', objects)]_objects

\* garbage collection has removed an object from a repository that still
\* holds a snapshot and its objects
C26_Witness ==
    /\ result.op = "gc"
    /\ result.out.val.deleted # {}
    /\ snapshots # NoFiles
    /\ objects # NoObjects

\* C27: snapshot-create, retention cleanup, snapshot delete, diff and
\* garbage collection create, modify and delete no file of the working tree.
C27_OnlyRestoreWritesTree ==
    [][result'.op \in {"snapshot", "cleanup", "delete", "diff", "gc"} =>
          tree' = tree]_tree

\* a restore has rewritten a file of the working tree
C27_Witness ==
    /\ result.op = "restore"
    /\ result.out.ok
    /\ result.out.val.restored > 0
    /\ result.out.val.backup
    /\ \E f \in DOMAIN snapshots, p \in DOMAIN tree :
          /\ snapshots[f].snap.trigger = "auto-backup"
          /\ \E i \in 1..Len(snapshots[f].snap.files) :
                /\ snapshots[f].snap.files[i].path = p
                /\ snapshots[f].snap.files[i].hash # compute_hash(tree[p].content)

\* the directories find_existing is said to probe, in order
Probes(storage_dir) ==
    (IF storage_dir # {} THEN <<CHOOSE d \in storage_dir : TRUE>> ELSE <<>>)
        \o <<".mote", ".git/mote", ".jj/mote">>

\* the first directory of probes that exists, or NotInitialized
FirstExisting(probes) ==
    LET hits == SelectSeq(probes, LAMBDA d : d \in Existing)
    IN  IF hits = <<>> THEN Err("NotInitialized") ELSE Ok(hits[1])

\* C29 as stated: find_existing returns the first existing directory among
\* the override (when one is given), .mote, .git/mote and .jj/mote, probed
\* in that order, and fails with NotInitialized exactly when none of them
\* exists.
C29_FirstExistingOfAllProbes ==
    result.op = "locate" => result.out = FirstExisting(Probes(result.arg))

\* C29, amended: given an override, find_existing returns it when it exists
\* and fails with NotInitialized when it does not, without probing further;
\* given none, it returns the first existing directory among .mote,
\* .git/mote and .jj/mote, probed in that order, and fails with
\* NotInitialized exactly when none of them exists.
C29_OverrideElseFirstExisting ==
    result.op = "locate" =>
        /\ result.arg # {} =>
              result.out = FirstExisting(<<CHOOSE d \in result.arg : TRUE>>)
        /\ result.arg = {} => result.out = FirstExisting(Probes({}))
        /\ result.out.ok => repo = result.out.val

\* with three roots side by side, a lookup without override found .mote
C29_Witness ==
    /\ result.op = "locate"
    /\ result.arg = {}
    /\ {"custom", ".mote", ".git/mote"} \subseteq Existing
    /\ result.out = Ok(".mote")

\* the arguments of the mote init that ran last, if one did
InitCall == IF result.op = "init" THEN result.arg ELSE [strategy |-> "", storage_dir |-> {}]

roots == <<Existing, InitCall, result.op>>

\* the path that mote init chooses, if the strategy yields one
Chosen(call) ==
    IF call.storage_dir # {} THEN Ok(CHOOSE d \in call.storage_dir : TRUE)
    ELSE determine_storage_path(find_vcs_dir(tree), call.strategy)

\* the contents of the storage root r after the step
ContentsAfter(r) ==
    IF r = repo' THEN [objects |-> objects', snapshots |-> snapshots', index |-> index']
    ELSE IF r \in DOMAIN shelved' THEN shelved'[r]
    ELSE EmptyRoot

\* init on a chosen path that does not exist creates it with empty
\* objects/ and snapshots/; on one that exists it fails and changes nothing
InitOnChosen ==
    Chosen(result'.arg).ok =>
        LET path == Chosen(result'.arg).val
        IN  /\ \A q \in Existing : ContentsAfter(q) = Contents(q)
            /\ path \notin Existing =>
                  /\ result'.out = Ok(path)
                  /\ Existing' = Existing \cup {path}
                  /\ ContentsAfter(path) = EmptyRoot
            /\ path \in Existing =>
                  /\ result'.out = Err("AlreadyInitialized")
                  /\ Existing' = Existing

\* C28 as stated: init on a chosen path that does not exist creates the
\* repository root with objects/ and snapshots/; init on a chosen path that
\* exists fails with AlreadyInitialized and leaves its contents unchanged;
\* and an init after a successful one always fails.
C28_SecondInitAlwaysFails ==
    [][result'.op = "init" =>
          /\ InitOnChosen
          /\ Existing # {} => ~result'.out.ok]_roots

\* C28, amended: init on a chosen path that does not exist creates the
\* repository root with objects/ and snapshots/; init on a chosen path that
\* exists fails with AlreadyInitialized and leaves its contents unchanged,
\* so an init that chooses the path of a successful one fails.
C28_InitCreatesOrRefuses ==
    [][result'.op = "init" => InitOnChosen]_roots

\* mote init was refused on a root that holds a snapshot
C28_Witness ==
    /\ result.op = "init"
    /\ result.arg.storage_dir = {}
    /\ result.out = Err("AlreadyInitialized")
    /\ Chosen(result.arg) = Ok(".mote")
    /\ DOMAIN Contents(".mote").snapshots # {}

\* the value that the config.toml of a layer sets for setting f: a set of at
\* most one value, empty when the layer is not loaded or leaves f out
SetBy(layer, f) ==
    IF layer = "global" THEN UNION {file[f] : file \in config_dir.global}
    ELSE IF layer = "project" THEN UNION {file[f] : file \in config_dir.project}
    ELSE IF config_dir.project = {} THEN {}
    ELSE UNION {file[f] : file \in config_dir.context}

\* the value of the highest-priority layer that sets f, else the default
Layered(f) ==
    IF SetBy("context", f) # {} THEN CHOOSE v \in SetBy("context", f) : TRUE
    ELSE IF SetBy("project", f) # {} THEN CHOOSE v \in SetBy("project", f) : TRUE
    ELSE IF SetBy("global", f) # {} THEN CHOOSE v \in SetBy("global", f) : TRUE
    ELSE default_config[f]

\* C30: for every configuration setting, ConfigResolver::resolve returns the
\* value given by the highest-priority layer that sets it, context over
\* project over global.
C30_HighestLayerWins ==
    result.op = "resolve" => \A f \in Settings : result.out.val[f] = Layered(f)

\* the snapshot-create process i has returned with a saved snapshot
Saved(i) == Ended(i) /\ procs[i].out.ok /\ procs[i].out.val.saved

\* list() returns the snapshot, whatever order read_dir takes
Listed(snap) ==
    \A o \in ListingOrders(snapshots) :
        \E k \in 1..Len(list(snapshots, o)) : list(snapshots, o)[k] = snap

\* every object named by a manifest that parses is present and decodes to
\* content that hashes to its key
AllRetrievable ==
    \A s \in Parsed : \A k \in 1..Len(s.files) : retrieve(objects, s.files[k].hash).ok

\* C21: nothing keeps mote gc from running while a snapshot-create is under
\* way, and a GC run then deletes every object that no persisted manifest
\* references, the objects that the running snapshot-create has stored
\* among them, so that the manifest saved afterwards names a missing object.
C21_GcInterleavesWithScanner ==
    /\ [](InFlight(1) => ENABLED CmdGc(FALSE))
    /\ [][result'.op = "gc" =>
            \A q \in DOMAIN objects :
                (q[1] \o q[2]) \notin Referenced => q \notin DOMAIN objects']_<<objects, result.op>>

\* the snapshot-create has saved its manifest, mote gc ran last before it
\* did, and the manifest names an object that is no longer there
C21_Witness ==
    /\ Saved(1)
    /\ procs[1].snap \in Parsed
    /\ \E k \in 1..Len(procs[1].snap.files) :
          object_path(procs[1].snap.files[k].hash) \notin DOMAIN objects

C31_ListedHashesHaveObjects ==
    \A h \in Referenced : object_path(h) \in DOMAIN objects

\* the index has an entry for path p of the working tree whose stored mtime
\* and size are those of the file
Hit(entries, p) ==
    /\ p \in DOMAIN entries
    /\ entries[p].mtime = tree[p].mtime
    /\ entries[p].size = Len(tree[p].content)

\* the entries that a list of files holds for path p
Emitted(files, p) == {files[k] : k \in {j \in 1..Len(files) : files[j].path = p}}

\* C32: in the scan of a snapshot-create, store_file is called for a visited
\* file exactly when the index has no entry for its path with the file's
\* mtime and size: the objects stored are those of the missed files. On a
\* hit the emitted entry carries the cached hash and size and the index
\* entry stays as it is; on a miss the emitted entry carries the hash and
\* size of the content and the index entry becomes (hash, size, mtime).
C32_StoreOnMissOnly ==
    [][(result'.op = "snapshot" /\ result'.out.ok) =>
          LET entries == load(index).val
              visited == {walk_files(tree, ignore)[k] :
                             k \in 1..Len(walk_files(tree, ignore))}
              misses == {p \in visited : ~Hit(entries, p)}
          IN  /\ DOMAIN objects' =
                    DOMAIN objects \cup
                        {object_path(compute_hash(tree[p].content)) : p \in misses}
              /\ \A p \in visited \ misses :
                    /\ Emitted(result'.out.val.files, p) =
                          {FileEntry(p, entries[p].hash, entries[p].size)}
                    /\ index'.entries[p] = entries[p]
              /\ \A p \in misses :
                    /\ Emitted(result'.out.val.files, p) =
                          {FileEntry(p, compute_hash(tree[p].content),
                                     Len(tree[p].content))}
                    /\ index'.entries[p] =
                          [path |-> p, hash |-> compute_hash(tree[p].content),
                           size |-> Len(tree[p].content), mtime |-> tree[p].mtime]]_created

\* a scan took one file from the index, with a hash that its content no
\* longer has, and read another
C32_Witness ==
    /\ result.op = "snapshot"
    /\ result.out.ok
    /\ \E p \in DOMAIN tree :
          /\ Emitted(result.out.val.files, p) # {}
          /\ \A e \in Emitted(result.out.val.files, p) :
                e.hash # compute_hash(tree[p].content)
          /\ object_path(compute_hash(tree[p].content)) \notin DOMAIN objects
    /\ \E p \in DOMAIN tree :
          \E e \in Emitted(result.out.val.files, p) :
              /\ e.hash = compute_hash(tree[p].content)
              /\ index.entries[p].mtime = tree[p].mtime

\* a full restore that is not a dry run
FullRestore(r) == r.op = "restore" /\ r.arg.file = {} /\ ~r.arg.dry_run

\* the files of the manifest whose destination holds, before the step, content
\* that hashes to the recorded hash
Untouched(snap) ==
    {i \in 1..Len(snap.files) :
        /\ snap.files[i].path \in DOMAIN tree
        /\ compute_hash(tree[snap.files[i].path].content) = snap.files[i].hash}

\* the files of the manifest that the step wrote
Written(snap) ==
    {i \in (1..Len(snap.files)) \ Untouched(snap) :
        /\ snap.files[i].path \in DOMAIN tree'
        /\ compute_hash(tree'[snap.files[i].path].content) = snap.files[i].hash}

\* C33: a full restore that is not a dry run returns (restored, skipped),
\* restored being the number of manifest files written and skipped the number
\* of manifest files left untouched because the destination already hashed
\* to the target hash.
C33_RestoreCounts ==
    [][(FullRestore(result') /\ result'.out.ok) =>
          /\ result'.out.val.restored = Cardinality(Written(Target(result'.arg.id)))
          /\ result'.out.val.skipped = Cardinality(Untouched(Target(result'.arg.id)))]_effect

\* a manifest file on which the step itself fails: its object is missing or
\* damaged, or its destination exists and cannot be opened
FailsAlone(file) ==
    \/ ~retrieve(objects, file.hash).ok
    \/ file.path \in DOMAIN tree /\ ~tree[file.path].readable

\* C34: in a full restore a failure on one manifest file does not abort the
\* restore: the operation returns its counts, and every manifest file that
\* does not itself fail holds its recorded content afterwards.
C34_RestoreSurvivesFileFailure ==
    [][FullRestore(result') =>
          /\ result'.out.ok
          /\ \A i \in 1..Len(Target(result'.arg.id).files) :
                LET file == Target(result'.arg.id).files[i]
                IN  \/ FailsAlone(file)
                    \/ /\ file.path \in DOMAIN tree'
                       /\ compute_hash(tree'[file.path].content) = file.hash]_effect

\* the entries under objects/ that no listed snapshot names and that
\* remove_file can remove
Removable ==
    {q \in DOMAIN objects : q[1] \o q[2] \notin Referenced /\ objects[q] # Directory}

\* C35: in GC's delete phase a failure to remove one unreferenced object is
\* skipped: the run returns the objects it removed, and these are all the
\* unreferenced objects that can be removed.
C35_GcSurvivesRemoveFailure ==
    [][(result'.op = "gc" /\ ~result'.arg) =>
          /\ result'.out.ok
          /\ result'.out.val.deleted = Removable
          /\ DOMAIN objects' = DOMAIN objects \ Removable]_effect

\* an entry under objects/ whose prefix directory name and file name make up
\* a content hash
HashShaped(q) == q[1] \o q[2] \in Hashes /\ Len(q[1]) = PrefixLen

\* C36: GC never deletes an entry under objects/ whose reconstituted name
\* does not have the shape of a content hash: it is still on disk, unchanged,
\* after the run.
C36_GcKeepsOddNames ==
    [][result'.op = "gc" =>
          \A q \in DOMAIN objects :
              ~HashShaped(q) => q \in DOMAIN objects' /\ objects'[q] = objects[q]]_objects

\* C37: a full restore never deletes a working-tree file: every file that is
\* on disk and absent from the target manifest is still there, as it was,
\* after the restore, whether the restore succeeds or not.
C37_RestoreDeletesNothing ==
    [][(result'.op = "restore" /\ result'.arg.file = {}) =>
          \A p \in DOMAIN tree \ Recorded(result'.arg.id) :
              p \in DOMAIN tree' /\ tree'[p] = tree[p]]_effect

\* a full restore wrote a file of the manifest beside a file that the
\* manifest does not have
C37_Witness ==
    /\ FullRestore(result)
    /\ result.out.ok
    /\ result.out.val.restored > 0
    /\ DOMAIN tree \ Recorded(result.arg.id) # {}

\* the content that the diff owes to path p on the side of the snapshot
\* named id: empty when the snapshot has no such path or its object is gone
SideOf(id, p) ==
    IF HashIn(id, p) = {} THEN <<>>
    ELSE LET hash == CHOOSE h \in HashIn(id, p) : TRUE
         IN  IF object_path(hash) \notin DOMAIN objects THEN <<>>
             ELSE retrieve(objects, hash).val

\* the record that a content diff owes to path p: none when the hashes are
\* the same or both sides are empty
OwedHunk(from, to, p) ==
    IF HashIn(from, p) = HashIn(to, p) THEN {}
    ELSE IF SideOf(from, p) = <<>> /\ SideOf(to, p) = <<>> THEN {}
    ELSE {<<"diff", p, SideOf(from, p), SideOf(to, p)>>}

\* no object that is in the store for a file of the snapshot fails to decode
Sound(id) ==
    \A i \in 1..Len(Target(id).files) :
        LET hash == Target(id).files[i].hash
        IN  object_path(hash) \in DOMAIN objects => retrieve(objects, hash).ok

\* C38: in a content diff of two snapshots an object missing from the store
\* on either side never fails the diff: the missing side is taken as empty
\* content, and every path that differs gets its record.
C38_MissingObjectDiffsAsEmpty ==
    (/\ result.op = "diff"
     /\ ~result.arg.name_only
     /\ Sound(result.arg.from)
     /\ Sound(result.arg.to)) =>
        /\ result.out.ok
        /\ {result.out.val[i] : i \in 3..Len(result.out.val)}
              = UNION {OwedHunk(result.arg.from, result.arg.to, p) : p \in FilePaths}

\* the ids of the snapshots that list() returns
ListedIds == {s.id : s \in Parsed}

\* C39: deleting the snapshot with id X, by delete or by a retention
\* removal, removes the manifest of exactly that snapshot: after a delete of
\* X the listed snapshots are those listed before without X, and a cleanup
\* that reports n removals leaves n snapshots fewer in the list.
C39_DeleteRemovesThatManifest ==
    [][/\ (result'.op = "delete" /\ result'.out = Ok("deleted")) =>
             ListedIds' = ListedIds \ {result'.arg}
       /\ result'.op = "cleanup" =>
             /\ ListedIds' \subseteq ListedIds
             /\ Cardinality(ListedIds') = Cardinality(ListedIds) - result'.out.val]_snapshots

\* C40: a single-file restore, whatever its file argument, never creates,
\* overwrites or deletes a file outside the working-tree root.
C40_SingleRestoreStaysInRoot ==
    [][(result'.op = "restore" /\ result'.arg.file # {}) => beside' = beside]_beside
====
